---- MODULE Spec2Model ----
(***************************************************************************)
(* A model of Infinium: the configuration manager (lib/ui/config.py), the  *)
(* main controller (infinium.py), the command line event loop              *)
(* (lib/ui/cli.py) and the valuation-model subsystem (lib/ml.py).          *)
(*                                                                         *)
(* Python values are records tagged by "kind"; a raised exception is a     *)
(* record [ok |-> FALSE, exc |-> <class name>, ...].  Every specification  *)
(* below shares the variables; each one leaves the variables of the other  *)
(* components at their initial values.                                     *)
(***************************************************************************)
EXTENDS Integers, Sequences, FiniteSets, TLC

VARIABLES
    files,            \* the settings file at each of the three search locations
    insts,            \* heap of _Configuration objects: <<[conf, config_path]>>
    _configuration,   \* config.py module global: 0 is None, else an index of insts
    _thread_lock,     \* config.py module global: TRUE while the lock is held
    pc,               \* per thread: position inside the configuration API
    frame,            \* per thread: arguments and locals of the running call
    held,             \* per thread: the instance its last get_config returned
    result,           \* per thread: outcome of its last finished call
    ncalls,           \* calls started so far
    m_pc,             \* infinium.main: position
    argv,             \* command line flags
    cl_args,          \* argparse namespace
    m_configuration,  \* infinium.main: local configuration
    err_msg,          \* infinium.main: local err_msg
    user_interface,   \* the launched user interface, or "none"
    log,              \* records handed to the root logger
    shown,            \* messages shown through user_interface.show_error
    proc,             \* how the process ended, if it did
    reads,            \* infinium.main: reads of user_interface.main_operation this iteration
    iterations,       \* main loop iterations started
    dispatched,       \* operations dispatched by the running event loop
    c_pc,             \* cli.launch_cli: position
    c_conf,           \* cli.launch_cli: the configuration argument
    credentials,      \* cli.launch_cli: locals username, password
    attempts,         \* cli.launch_cli: credentials of each connect_database call
    entered,          \* credentials typed at each _prompt_db_credentials
    prompts,          \* lines _main_prompt rejected for the current selection
    main_op,          \* cli.launch_cli: local main_operation
    ml_trace,         \* steps of ml.construct_model that ran
    Session,          \* db.py module global Session
    ml_calls,         \* calls made to the functions of lib/ml.py and lib/db.py
    conversions,      \* lookups made in the MainOperation mappings
    pv_args,          \* _prompt_until_valid: its keyword arguments
    pv_printed,       \* _prompt_until_valid: each rejected line and what it printed
    pv_result,        \* _prompt_until_valid: the line it accepted and the value returned
    db_rows,          \* the committed rows of the database
    session,          \* db.Session: objects added and not yet committed
    f_pc,             \* cli._add_database_entry: position
    f_loc,            \* cli._add_database_entry: locals
    f_prompts,        \* prompts shown by the flow, in order
    f_error,          \* the message the last rejected line printed, if any
    f_added,          \* every object the flow handed to session.add
    f_outcome         \* how the flow ended, if it did

cfgVars  == <<files, insts, _configuration, _thread_lock, pc, frame, held, result, ncalls>>
mainVars == <<m_pc, argv, cl_args, m_configuration, err_msg, user_interface, reads, iterations>>
procVars == <<log, shown, proc, dispatched>>
cliVars  == <<c_pc, c_conf, credentials, attempts, entered, prompts, main_op, ml_trace,
              Session>>
mlVars   == <<ml_calls>>
constVars == <<conversions>>
promptVars == <<pv_args, pv_printed, pv_result>>
formVars == <<db_rows, session, f_pc, f_loc, f_prompts, f_error, f_added, f_outcome>>
vars     == <<cfgVars, mainVars, procVars, cliVars, mlVars, constVars, promptVars, formVars>>

---------------------------------------------------------------------------
(* Bounds of the model.                                                    *)

MaxCalls == 3        \* configuration API calls started in one behaviour
MaxPrompts == 2      \* rejected lines per main menu prompt
MaxIterations == 2   \* event loop iterations of launch_cli
MaxAttempts == 2     \* failed database connection attempts
MaxMlCalls == 2      \* direct calls of the model subsystem's functions
MaxConversions == 3  \* lookups in the MainOperation mappings
MaxRejected == 2     \* lines one call of _prompt_until_valid rejects
MaxOptions == 3      \* options of a numbered menu with bounds (1, N + 1)
MaxDbCalls == 3      \* direct calls of db.connect_database and db.Session

Threads == {"t1", "t2"}

---------------------------------------------------------------------------
(* Python values.                                                          *)

PyNone == [kind |-> "none"]
PyStr(s) == [kind |-> "str", v |-> s]
PyPath(s) == [kind |-> "path", v |-> s]
PyMap(m) == [kind |-> "map", m |-> m]

\* str(x) for the values the setters are given.
str(x) == IF x.kind \in {"str", "path"} THEN PyStr(x.v) ELSE PyStr("None")

Return(v) == [ok |-> TRUE, val |-> v]
Raise(e, msg) == [ok |-> FALSE, exc |-> e, msg |-> msg]

\* obj[key]
GetItem(obj, key) ==
    IF obj.kind = "map"
    THEN IF key \in DOMAIN obj.m THEN Return(obj.m[key]) ELSE Raise("KeyError", key)
    ELSE Raise("TypeError", key)

\* An assignment that leaves the mapping with that one key.
SetItem_alone(obj, key, value) == PyMap([k \in {key} |-> value])

\* obj[key] = value, for a mapping obj
SetItem(obj, key, value) ==
    PyMap([k \in (DOMAIN obj.m) \cup {key} |-> IF k = key THEN value ELSE obj.m[k]])

---------------------------------------------------------------------------
(* The settings file.  A file is absent, unreadable (open raises OSError), *)
(* garbage (yaml.load raises) or a YAML document.  A document is the set   *)
(* of its lines: <<section, field, value>>, <<key, value>> for a top-level *)
(* scalar, <<section>> for an empty section and <<>> for "{}".             *)

NoFile == [kind |-> "absent", entries |-> {}]
Unreadable == [kind |-> "unreadable", entries |-> {}]
Garbage == [kind |-> "garbage", entries |-> {}]
Yaml(entries) == [kind |-> "yaml", entries |-> entries]

\* yaml.load of a document.
load(file) ==
    IF file.entries = {} THEN PyNone
    ELSE PyMap([k \in {e[1] : e \in {x \in file.entries : Len(x) >= 1}} |->
            IF \E e \in file.entries : Len(e) = 2 /\ e[1] = k
            THEN PyStr((CHOOSE e \in file.entries : Len(e) = 2 /\ e[1] = k)[2])
            ELSE PyMap([f \in {e[2] : e \in {x \in file.entries : Len(x) = 3 /\ x[1] = k}} |->
                    PyStr((CHOOSE e \in file.entries :
                               Len(e) = 3 /\ e[1] = k /\ e[2] = f)[3])])])

\* The lines yaml.dump writes for one top-level key.
DumpKey(k, node) ==
    IF node.kind = "map"
    THEN IF DOMAIN node.m = {} THEN {<<k>>}
         ELSE {<<k, f, node.m[f].v>> : f \in DOMAIN node.m}
    ELSE {<<k, node.v>>}

\* yaml.dump of the in-memory structure.
dump(conf) ==
    IF conf.kind # "map" THEN Yaml({<<"null">>})
    ELSE IF DOMAIN conf.m = {} THEN Yaml({<<>>})
    ELSE Yaml(UNION {DumpKey(k, conf.m[k]) : k \in DOMAIN conf.m})

\* Settings files a user may have, with the values tagged by location.
FullDoc(loc) ==
    Yaml({<<"general", "model_path", "m_" \o loc>>,
          <<"general", "log_path", "l_" \o loc>>,
          <<"database", "username", "u_" \o loc>>})
NoFieldDoc(loc) ==
    Yaml({<<"general", "log_path", "l_" \o loc>>,
          <<"database", "username", "u_" \o loc>>})
NoSectionDoc(loc) ==
    Yaml({<<"database", "username", "u_" \o loc>>})
EmptyDoc == Yaml({})

LocSet == {"cwd", "environ", "install"}
FileChoices(loc) ==
    {NoFile, FullDoc(loc), NoFieldDoc(loc), NoSectionDoc(loc), EmptyDoc, Garbage, Unreadable}

\* Path.exists()
exists(fs, loc) == fs[loc].kind # "absent"

---------------------------------------------------------------------------
(* lib/ui/config.py                                                        *)

\* The search with the installation directory tried before the environment one.
FindConfigPath_InstallFirst(fs) ==
    IF exists(fs, "cwd") THEN "cwd"
    ELSE IF exists(fs, "install") THEN "install"
    ELSE IF exists(fs, "environ") THEN "environ"
    ELSE "none"

\* _Configuration.__init__, lines 121-136: the search for the file.
FindConfigPath(fs) ==
    IF exists(fs, "cwd") THEN "cwd"
    ELSE IF exists(fs, "environ") THEN "environ"
    ELSE IF exists(fs, "install") THEN "install"
    ELSE "none"

\* _Configuration(): the new object, or the exception the constructor raises.
_Configuration(fs) ==
    LET config_path == FindConfigPath(fs) IN
    IF config_path = "none"
    THEN Raise("ConfigFileNotFoundError", "The configuration file could not be found.")
    ELSE IF fs[config_path].kind = "unreadable" THEN Raise("OSError", config_path)
    ELSE IF fs[config_path].kind = "garbage" THEN Raise("YAMLError", config_path)
    ELSE Return([conf |-> load(fs[config_path]), config_path |-> config_path])

\* _Configuration.__handle_key_error
handle_key_error(self, section, field_name) ==
    Raise("ConfigFileCorruptError",
          [section |-> section, field |-> field_name, path |-> self.config_path])

\* A getter that answers None for a missing section or field, as dict.get would.
get_field_default(self, section, field) ==
    LET sec == GetItem(self.conf, section) IN
    IF ~sec.ok
    THEN IF sec.exc = "KeyError" THEN Return(PyNone) ELSE sec
    ELSE LET val == GetItem(sec.val, field) IN
         IF ~val.ok /\ val.exc = "KeyError" THEN Return(PyNone) ELSE val

\* The try block of _Configuration.__get_field with its except clause.
get_field(self, section, field) ==
    LET sec == GetItem(self.conf, section) IN
    IF ~sec.ok
    THEN IF sec.exc = "KeyError" THEN handle_key_error(self, section, field) ELSE sec
    ELSE LET val == GetItem(sec.val, field) IN
         IF ~val.ok /\ val.exc = "KeyError"
         THEN handle_key_error(self, section, field)
         ELSE val

\* An acquire that never waits.
acquire_nonblocking(lock) == TRUE

\* threading.Lock.acquire() returns only while the lock is free.
acquire(lock) == lock = FALSE

\* threading.Lock.release(): what the statement after it sees.  Releasing a
\* lock that is not held raises RuntimeError in place of the pending outcome.
release(lock, pending) ==
    IF lock THEN pending ELSE Raise("RuntimeError", "release unlocked lock")

\* The getters and the setters of _Configuration the model exercises.
Getters == {<<"general", "model_path">>, <<"general", "log_path">>, <<"database", "username">>}
Setters == {<<"general", "model_path">>, <<"general", "log_path">>}
NewValues == {PyStr("p1"), PyPath("p2")}
WriteOutcomes == {"ok", "open_fails", "dump_fails"}

NoFrame == [op |-> "none"]
NoResult == [op |-> "none", ok |-> TRUE, val |-> PyNone]
Finished(op, r) == [op |-> op] @@ r

\* The files the three locations may hold.  What a file holds matters only at
\* the first location that has one; a location searched after it holds no
\* file or a well-formed one.
InitFiles ==
    /\ files \in [LocSet -> UNION {FileChoices(l) : l \in LocSet}]
    /\ \A l \in LocSet : files[l] \in FileChoices(l)
    /\ exists(files, "cwd") => files["environ"] \in {NoFile, FullDoc("environ")}
    /\ exists(files, "cwd") \/ exists(files, "environ")
           => files["install"] \in {NoFile, FullDoc("install")}

\* The configuration manager touches nothing of the other components.
OnlyCfg == UNCHANGED <<mainVars, procVars, cliVars, mlVars, constVars, promptVars, formVars>>

InitCfg ==
    /\ InitFiles
    /\ insts = <<>>
    /\ _configuration = 0
    /\ _thread_lock = FALSE
    /\ pc = [t \in Threads |-> "idle"]
    /\ frame = [t \in Threads |-> NoFrame]
    /\ held = [t \in Threads |-> 0]
    /\ result = [t \in Threads |-> NoResult]
    /\ ncalls = 0

\* A thread calls get_config().
CallGetConfig(t) ==
    /\ OnlyCfg
    /\ pc[t] = "idle" /\ ncalls < MaxCalls
    /\ pc' = [pc EXCEPT ![t] = "gc_acquire"]
    /\ frame' = [frame EXCEPT ![t] = [op |-> "get_config"]]
    /\ ncalls' = ncalls + 1
    /\ UNCHANGED <<files, insts, _configuration, _thread_lock, held, result>>

\* config.py:79
get_config_acquire(t) ==
    /\ OnlyCfg
    /\ pc[t] = "gc_acquire" /\ acquire(_thread_lock)
    /\ _thread_lock' = TRUE
    /\ pc' = [pc EXCEPT ![t] = "gc_check"]
    /\ UNCHANGED <<files, insts, _configuration, frame, held, result, ncalls>>

\* config.py:80
get_config_check(t) ==
    /\ OnlyCfg
    /\ pc[t] = "gc_check"
    /\ pc' = [pc EXCEPT ![t] = IF _configuration = 0 THEN "gc_construct" ELSE "gc_release"]
    /\ UNCHANGED <<files, insts, _configuration, _thread_lock, frame, held, result, ncalls>>

\* config.py:81; an exception leaves get_config at once.
get_config_construct(t) ==
    /\ OnlyCfg
    /\ pc[t] = "gc_construct"
    /\ LET new == _Configuration(files) IN
       IF new.ok
       THEN /\ insts' = Append(insts, new.val)
            /\ _configuration' = Len(insts) + 1
            /\ pc' = [pc EXCEPT ![t] = "gc_release"]
            /\ UNCHANGED <<frame, result>>
       ELSE /\ pc' = [pc EXCEPT ![t] = "idle"]
            /\ frame' = [frame EXCEPT ![t] = NoFrame]
            /\ result' = [result EXCEPT ![t] = Finished("get_config", new)]
            /\ UNCHANGED <<insts, _configuration>>
    /\ UNCHANGED <<files, _thread_lock, held, ncalls>>

\* config.py:83
get_config_release(t) ==
    /\ OnlyCfg
    /\ pc[t] = "gc_release"
    /\ _thread_lock' = FALSE
    /\ IF release(_thread_lock, Return(PyNone)).ok
       THEN /\ pc' = [pc EXCEPT ![t] = "gc_return"]
            /\ UNCHANGED <<frame, result>>
       ELSE /\ pc' = [pc EXCEPT ![t] = "idle"]
            /\ frame' = [frame EXCEPT ![t] = NoFrame]
            /\ result' = [result EXCEPT ![t] =
                              Finished("get_config", release(_thread_lock, Return(PyNone)))]
    /\ UNCHANGED <<files, insts, _configuration, held, ncalls>>

\* config.py:84
get_config_return(t) ==
    /\ OnlyCfg
    /\ pc[t] = "gc_return"
    /\ pc' = [pc EXCEPT ![t] = "idle"]
    /\ frame' = [frame EXCEPT ![t] = NoFrame]
    /\ held' = [held EXCEPT ![t] = _configuration]
    /\ result' = [result EXCEPT ![t] = Finished("get_config", Return(_configuration))]
    /\ UNCHANGED <<files, insts, _configuration, _thread_lock, ncalls>>

\* A thread assigns to a property of the instance it holds: config.py:189-199.
CallSetter(t) ==
    /\ OnlyCfg
    /\ pc[t] = "idle" /\ ncalls < MaxCalls /\ held[t] # 0
    /\ \E sf \in Setters, v \in NewValues :
          frame' = [frame EXCEPT ![t] =
                        [op |-> "set", self |-> held[t], section |-> sf[1], field |-> sf[2],
                         new_value |-> v, old_value |-> PyNone, error |-> Return(PyNone)]]
    /\ pc' = [pc EXCEPT ![t] = "uf_acquire"]
    /\ ncalls' = ncalls + 1
    /\ UNCHANGED <<files, insts, _configuration, _thread_lock, held, result>>

\* config.py:144-145
update_field_acquire(t) ==
    /\ OnlyCfg
    /\ pc[t] = "uf_acquire" /\ acquire(_thread_lock)
    /\ _thread_lock' = TRUE
    /\ frame' = [frame EXCEPT ![t].new_value = str(@)]
    /\ pc' = [pc EXCEPT ![t] = "uf_assign"]
    /\ UNCHANGED <<files, insts, _configuration, held, result, ncalls>>

\* config.py:146-147; an exception of line 146 leaves the method at once.
update_field_assign(t) ==
    /\ OnlyCfg
    /\ pc[t] = "uf_assign"
    /\ LET f == frame[t]
           self == insts[f.self]
           sec == GetItem(self.conf, f.section)
           old == IF sec.ok THEN GetItem(sec.val, f.field) ELSE sec
       IN IF old.ok
          THEN /\ frame' = [frame EXCEPT ![t].old_value = old.val]
               /\ insts' = [insts EXCEPT ![f.self].conf =
                                 SetItem(@, f.section, SetItem(sec.val, f.field, f.new_value))]
               /\ pc' = [pc EXCEPT ![t] = "uf_write"]
               /\ UNCHANGED result
          ELSE /\ pc' = [pc EXCEPT ![t] = "idle"]
               /\ frame' = [frame EXCEPT ![t] = NoFrame]
               /\ result' = [result EXCEPT ![t] = Finished("set", old)]
               /\ UNCHANGED insts
    /\ UNCHANGED <<files, _configuration, _thread_lock, held, ncalls>>

\* The except clause of _Configuration.__update_field, config.py:155-157.
rollback(conf, section, field, old_value) == SetItem(conf, field, old_value)

\* config.py:148-157: the write of the file and, when it fails, the rollback.
\* open(w) fails and leaves the file as it was, or dump fails after open
\* truncated it.
update_field_write(t) ==
    /\ OnlyCfg
    /\ pc[t] = "uf_write"
    /\ LET f == frame[t]
           self == insts[f.self]
       IN \E outcome \in WriteOutcomes :
            IF outcome = "ok"
            THEN /\ files' = [files EXCEPT ![self.config_path] = dump(self.conf)]
                 /\ UNCHANGED <<insts, frame>>
            ELSE /\ files' = IF outcome = "open_fails" THEN files
                             ELSE [files EXCEPT ![self.config_path] = EmptyDoc]
                 /\ insts' = [insts EXCEPT ![f.self].conf =
                                   rollback(@, f.section, f.field, f.old_value)]
                 /\ frame' = [frame EXCEPT ![t].error = Raise("OSError", outcome)]
    /\ pc' = [pc EXCEPT ![t] = "uf_release"]
    /\ UNCHANGED <<_configuration, _thread_lock, held, result, ncalls>>

\* config.py:159-160, then the return or the re-raise of line 157.
update_field_release(t) ==
    /\ OnlyCfg
    /\ pc[t] = "uf_release"
    /\ _thread_lock' = FALSE
    /\ result' = [result EXCEPT ![t] = Finished("set", release(_thread_lock, frame[t].error))]
    /\ frame' = [frame EXCEPT ![t] = [op |-> "set_done", self |-> @.self, section |-> @.section,
                                      field |-> @.field, new_value |-> @.new_value,
                                      old_value |-> @.old_value, error |-> @.error]]
    /\ pc' = [pc EXCEPT ![t] = "idle"]
    /\ UNCHANGED <<files, insts, _configuration, held, ncalls>>

\* A thread reads a property of the instance it holds.
CallGetter(t) ==
    /\ OnlyCfg
    /\ pc[t] = "idle" /\ ncalls < MaxCalls /\ held[t] # 0
    /\ \E sf \in Getters :
          frame' = [frame EXCEPT ![t] =
                        [op |-> "get", self |-> held[t], section |-> sf[1], field |-> sf[2],
                         value |-> Return(PyNone)]]
    /\ pc' = [pc EXCEPT ![t] = "gf_acquire"]
    /\ ncalls' = ncalls + 1
    /\ UNCHANGED <<files, insts, _configuration, _thread_lock, held, result>>

\* config.py:163-164
get_field_acquire(t) ==
    /\ OnlyCfg
    /\ pc[t] = "gf_acquire" /\ acquire(_thread_lock)
    /\ _thread_lock' = TRUE
    /\ pc' = [pc EXCEPT ![t] = "gf_read"]
    /\ UNCHANGED <<files, insts, _configuration, frame, held, result, ncalls>>

\* config.py:165-169
get_field_read(t) ==
    /\ OnlyCfg
    /\ pc[t] = "gf_read"
    /\ frame' = [frame EXCEPT ![t].value =
                      get_field(insts[frame[t].self], frame[t].section, frame[t].field)]
    /\ pc' = [pc EXCEPT ![t] = "gf_release"]
    /\ UNCHANGED <<files, insts, _configuration, _thread_lock, held, result, ncalls>>

\* config.py:171-172, then the return or the raise.
get_field_release(t) ==
    /\ OnlyCfg
    /\ pc[t] = "gf_release"
    /\ _thread_lock' = FALSE
    /\ result' = [result EXCEPT ![t] = Finished("get", release(_thread_lock, frame[t].value))]
    /\ frame' = [frame EXCEPT ![t] = [op |-> "get_done", self |-> @.self, section |-> @.section,
                                      field |-> @.field, value |-> @.value]]
    /\ pc' = [pc EXCEPT ![t] = "idle"]
    /\ UNCHANGED <<files, insts, _configuration, held, ncalls>>

---------------------------------------------------------------------------
(* lib/consts.py and the Python runtime's treatment of sys.exit.           *)

PyInt(n) == [kind |-> "int", v |-> n]

\* class ExitCode(Enum)
ExitCode == [success |-> 0, config_file_not_found |-> 1, config_file_corrupt |-> 2]

\* class MainOperation(Enum)
MainOperation == [construct_model |-> 1, add_database_entry |-> 2, analyze_stock |-> 3, exit |-> 4]

\* A member of an enumeration; members are equal only to themselves.
Member(cls, name, value) == [kind |-> "enum", cls |-> cls, name |-> name, v |-> value]
ExitCodeMember(name) == Member("ExitCode", name, ExitCode[name])
MainOperationMember(name) == Member("MainOperation", name, MainOperation[name])

\* member.value
value(member) == PyInt(member.v)

\* The exit status of a process left by sys.exit(arg): None is 0, an integer
\* is itself, any other object is printed to stderr and the status is 1.
SysExitStatus(arg) ==
    IF arg.kind = "none" THEN 0
    ELSE IF arg.kind = "int" THEN arg.v % 256
    ELSE 1

Running == [state |-> "running"]
\* The process after sys.exit(arg) in the branch named by at.
SysExit(arg, at) == [state |-> "exited", status |-> SysExitStatus(arg), cause |-> "sys.exit", at |-> at]
\* The process after an exception nothing catches: a traceback and status 1.
Uncaught(error, at) == [state |-> "exited", status |-> 1, cause |-> error.exc, at |-> at]

---------------------------------------------------------------------------
(* infinium.py: the main controller.                                       *)

Flags == {"-v", "-d", "-g"}

\* A parser that accepts -g and stores it.
parse_command_line_graphical(args) ==
    Return([verbose |-> "-v" \in args, debug |-> "-d" \in args, graphical |-> "-g" \in args])

\* cli.parse_command_line: -g is not an argument of the parser, which ends
\* the process with status 2 on it; graphical is then set to False.
parse_command_line(args) ==
    IF "-g" \in args THEN Raise("SystemExit", PyInt(2))
    ELSE Return([verbose |-> "-v" \in args, debug |-> "-d" \in args, graphical |-> FALSE])

\* The user interface class infinium.py imports; lib/ui/cli.py does not define
\* it.  Its constructor, from the interface contract.
CommandLineInterface(args, configuration) == "cli"

\* What one read of user_interface.main_operation may yield: a member of
\* MainOperation, a value outside it, or ConfigFileCorruptError from the
\* configuration the property consults.
main_operation ==
    {Return(MainOperationMember(n)) : n \in DOMAIN MainOperation}
        \cup {Return(Member("_MainOperation", "parse_annual_report", 3)),
              Raise("ConfigFileCorruptError",
                    [section |-> "general", field |-> "main_operation", path |-> "cwd"])}

\* logging.critical(error)
critical(records, error) == Append(records, [level |-> "CRITICAL", msg |-> error])

\* user_interface.show_error(message)
show_error(messages, message) == Append(messages, message)

\* str(error)
StrOf(error) == [kind |-> "str", of |-> error]

\* The main controller touches nothing of the threads and of launch_cli.
OnlyMain == UNCHANGED <<pc, frame, held, result, ncalls, cliVars, mlVars, constVars, promptVars,
                        formVars>>

InitMain ==
    /\ m_pc = "parse_command_line" /\ argv \in SUBSET Flags /\ cl_args = PyNone
    /\ m_configuration = 0 /\ err_msg = PyNone /\ user_interface = "none"
    /\ reads = 0 /\ iterations = 0

\* infinium.py:56
MainParseCommandLine ==
    /\ OnlyMain
    /\ m_pc = "parse_command_line" /\ proc.state = "running"
    /\ LET parsed == parse_command_line(argv) IN
       IF parsed.ok
       THEN /\ cl_args' = parsed.val /\ m_pc' = "configure_logging" /\ UNCHANGED proc
       ELSE /\ proc' = SysExit(parsed.msg, "parse_command_line") /\ UNCHANGED <<cl_args, m_pc>>
    /\ UNCHANGED <<files, insts, _configuration, _thread_lock, argv, m_configuration, err_msg,
                   user_interface, reads, iterations, log, shown, dispatched>>

\* infinium.py:59 and 133-160: logging.FileHandler opens the log file, which
\* may fail with OSError.
configure_logging ==
    /\ OnlyMain
    /\ m_pc = "configure_logging" /\ proc.state = "running"
    /\ \E opened \in BOOLEAN :
          IF opened
          THEN m_pc' = "get_config" /\ UNCHANGED proc
          ELSE proc' = Uncaught(Raise("OSError", "infinium.log"), "configure_logging")
                   /\ UNCHANGED m_pc
    /\ UNCHANGED <<files, insts, _configuration, _thread_lock, argv, cl_args, m_configuration,
                   err_msg, user_interface, reads, iterations, log, shown, dispatched>>

\* get_config() run by one thread from its first line to its last: the object
\* it returns or the exception it raises, and the globals it leaves.
get_config(fs, objects, cached, lock) ==
    IF cached # 0
    THEN [outcome |-> Return(cached), objects |-> objects, cached |-> cached, lock |-> FALSE]
    ELSE LET new == _Configuration(fs) IN
         IF new.ok
         THEN [outcome |-> Return(Len(objects) + 1), objects |-> Append(objects, new.val),
               cached |-> Len(objects) + 1, lock |-> FALSE]
         ELSE [outcome |-> new, objects |-> objects, cached |-> cached, lock |-> TRUE]

\* infinium.py:61-68
MainGetConfig ==
    /\ OnlyMain
    /\ m_pc = "get_config" /\ proc.state = "running" /\ acquire(_thread_lock)
    /\ LET got == get_config(files, insts, _configuration, _thread_lock) IN
       /\ insts' = got.objects /\ _configuration' = got.cached /\ _thread_lock' = got.lock
       /\ IF got.outcome.ok
          THEN /\ m_configuration' = got.outcome.val /\ m_pc' = "launch_user_interface"
               /\ UNCHANGED <<err_msg, log, proc>>
          ELSE IF got.outcome.exc \in {"ConfigFileNotFoundError", "ConfigFileCorruptError",
                                       "ConfigurationError", "OSError"}
          THEN /\ m_configuration' = 0
               /\ log' = critical(log, got.outcome)
               /\ err_msg' = StrOf(got.outcome)
               /\ m_pc' = "launch_user_interface"
               /\ UNCHANGED proc
          ELSE /\ proc' = Uncaught(got.outcome, "get_config")
               /\ UNCHANGED <<m_configuration, err_msg, log, m_pc>>
    /\ UNCHANGED <<files, argv, cl_args, user_interface, reads, iterations, shown, dispatched>>

\* infinium.py:70 and 163-184
launch_user_interface ==
    /\ OnlyMain
    /\ m_pc = "launch_user_interface" /\ proc.state = "running"
    /\ IF cl_args.graphical
       THEN /\ proc' = Uncaught(Raise("NotImplementedError", "GUI under construction. Please use CLI."),
                                "launch_user_interface")
            /\ UNCHANGED <<user_interface, m_pc>>
       ELSE /\ user_interface' = CommandLineInterface(cl_args, m_configuration)
            /\ m_pc' = "check_configuration"
            /\ UNCHANGED proc
    /\ UNCHANGED <<files, insts, _configuration, _thread_lock, argv, cl_args, m_configuration,
                   err_msg, reads, iterations, log, shown, dispatched>>

\* infinium.py:72-74
MainCheckConfiguration ==
    /\ OnlyMain
    /\ m_pc = "check_configuration" /\ proc.state = "running"
    /\ IF m_configuration = 0
       THEN /\ shown' = show_error(shown, err_msg)
            /\ proc' = SysExit(ExitCodeMember("config_file_not_found"), "startup")
            /\ UNCHANGED <<m_pc, iterations>>
       ELSE /\ m_pc' = "loop" /\ iterations' = iterations + 1
            /\ UNCHANGED <<shown, proc>>
    /\ UNCHANGED <<files, insts, _configuration, _thread_lock, argv, cl_args, m_configuration,
                   err_msg, user_interface, reads, log, dispatched>>

\* The operations the if/elif chain of the loop compares with, in its order.
Compared == <<"construct_model", "add_database_entry", "analyze_stock", "exit">>

\* infinium.py:81-125, one condition of the chain: a read of
\* user_interface.main_operation and the branch it selects.
MainLoopRead ==
    /\ OnlyMain
    /\ m_pc = "loop" /\ proc.state = "running"
    /\ \E r \in main_operation :
          IF ~r.ok
          THEN \* infinium.py:127-130
               /\ log' = critical(log, r)
               /\ shown' = show_error(shown, StrOf(r))
               /\ proc' = SysExit(ExitCodeMember("config_file_corrupt"), "except")
               /\ UNCHANGED <<reads, dispatched>>
          ELSE IF reads = Len(Compared)
          THEN \* infinium.py:122-125
               /\ proc' = Uncaught(Raise("SelectionError", r.val), "else")
               /\ reads' = reads + 1
               /\ UNCHANGED <<log, shown, dispatched>>
          ELSE IF r.val # MainOperationMember(Compared[reads + 1])
          THEN /\ reads' = reads + 1
               /\ UNCHANGED <<log, shown, proc, dispatched>>
          ELSE /\ reads' = reads + 1
               /\ dispatched' = Append(dispatched, Compared[reads + 1])
               /\ proc' = IF Compared[reads + 1] = "exit"
                          THEN \* infinium.py:120
                               SysExit(ExitCodeMember("success"), "exit")
                          ELSE \* infinium.py:82, 114, 117
                               Uncaught(Raise("NotImplementedError",
                                              <<Compared[reads + 1], "operation", "not", "yet",
                                                "implemented.">>),
                                        Compared[reads + 1])
               /\ UNCHANGED <<log, shown>>
    /\ UNCHANGED <<files, insts, _configuration, _thread_lock, m_pc, argv, cl_args,
                   m_configuration, err_msg, user_interface, iterations>>

---------------------------------------------------------------------------
(* lib/ml.py and lib/db.py: the valuation-model subsystem.                 *)

\* raise NotImplementedError(msg): the message is the sequence of its words,
\* a name between quoting marks being one word.
NotImplemented(msg) == Raise("NotImplementedError", msg)

\* ml.extract_training_data
extract_training_data(database) ==
    NotImplemented(<<"extract_training_data", "not", "yet", "implemented.">>)

\* ml.train_classifier
train_classifier(classifier, training_data) ==
    NotImplemented(<<"train_classifier", "not", "yet", "implemented.">>)

\* A load_model that does nothing.
load_model_noop(path) == Return(PyNone)

\* ml.load_model
load_model(path) ==
    NotImplemented(<<"load_valuation_model", "operation", "not", "yet", "implemented.">>)

\* ml.save_model
save_model(valuation_model, path) ==
    NotImplemented(<<"save_valuation_model", "operation", "not", "yet", "implemented.">>)

\* ml.evaluate_model
evaluate_model(valuation_model, testing_data) ==
    NotImplemented(<<"evaluate_model", "operation", "not", "yet", "implemented.">>)

\* db.extract_training_data
db_extract_training_data(database) ==
    NotImplemented(<<"extract_training_data", "operation", "not", "yet", "implemented.">>)

\* The names bound in the module lib/ml.py.
MlGlobals == {"SGDClassifier", "Developer", "get_config", "construct_model", "create_classifier",
              "extract_training_data", "train_classifier", "load_model", "save_model",
              "evaluate_model"}

\* The value of a global name of lib/ml.py, or NameError.
LoadName(name) ==
    IF name \in MlGlobals THEN Return(PyStr(name)) ELSE Raise("NameError", name)

\* The fields create_classifier reads, in the order of its keyword arguments.
SgdFields == <<"loss", "penalty", "alpha", "l1_ratio", "fit_intercept", "n_iter", "shuffle",
               "verbose", "n_jobs", "learning_rate", "eta0", "power_t">>

\* ml.create_classifier on the cached configuration: the first failing read
\* of a field, or the classifier.
create_classifier(self) ==
    LET failing == {i \in 1..Len(SgdFields) : ~get_field(self, "sgd_classifier", SgdFields[i]).ok} IN
    IF failing = {} THEN Return(PyStr("SGDClassifier"))
    ELSE get_field(self, "sgd_classifier",
                   SgdFields[CHOOSE i \in failing : \A j \in failing : i <= j])

\* The body of ml.construct_model: the steps that ran and how it ended.
construct_model_body(self) ==
    LET classifier == create_classifier(self)
        database == LoadName("database")
        training_data == extract_training_data(database.val)
        trained == train_classifier(classifier.val, training_data.val)
    IN IF ~classifier.ok
       THEN [outcome |-> classifier, trace |-> <<"get_config", "create_classifier">>]
       ELSE IF ~database.ok
       THEN [outcome |-> database, trace |-> <<"get_config", "create_classifier">>]
       ELSE IF ~training_data.ok
       THEN [outcome |-> training_data,
             trace |-> <<"get_config", "create_classifier", "extract_training_data">>]
       ELSE IF ~trained.ok
       THEN [outcome |-> trained,
             trace |-> <<"get_config", "create_classifier", "extract_training_data",
                         "train_classifier">>]
       ELSE [outcome |-> classifier,
             trace |-> <<"get_config", "create_classifier", "extract_training_data",
                         "train_classifier">>]

\* A call of ml.construct_model, which declares no parameter, with the
\* positional arguments args.
construct_model(args, self) ==
    IF Len(args) # 0
    THEN [outcome |-> Raise("TypeError", "construct_model() takes 0 positional arguments"),
          trace |-> <<>>]
    ELSE construct_model_body(self)

---------------------------------------------------------------------------
(* lib/ui/cli.py: launch_cli.                                              *)

\* class _MainOperation(Enum)
_MainOperation == [construct_model |-> 1, add_database_entry |-> 2, parse_annual_report |-> 3,
                   analyze_stock |-> 4, exit |-> 5]

\* lib/data.py: class ExitCode(Enum), the one lib/ui/cli.py imports.
data_ExitCode == [success |-> 0, config_file_not_found |-> 1, config_file_corrupt |-> 2]

\* A line typed at a prompt is the sequence of its characters.
Digits == [c \in {"0", "1", "2", "3", "4", "5", "6", "7", "8", "9"} |->
             CASE c = "0" -> 0 [] c = "1" -> 1 [] c = "2" -> 2 [] c = "3" -> 3 [] c = "4" -> 4
               [] c = "5" -> 5 [] c = "6" -> 6 [] c = "7" -> 7 [] c = "8" -> 8 [] c = "9" -> 9]
IsDigits(s) == \A i \in 1..Len(s) : s[i] \in DOMAIN Digits

\* The number a string of decimal digits denotes.
RECURSIVE Decimal(_)
Decimal(s) == IF s = <<>> THEN 0 ELSE Decimal(SubSeq(s, 1, Len(s) - 1)) * 10 + Digits[s[Len(s)]]

\* str.strip()
RECURSIVE strip(_)
strip(s) ==
    IF s # <<>> /\ s[1] = " " THEN strip(Tail(s))
    ELSE IF s # <<>> /\ s[Len(s)] = " " THEN strip(SubSeq(s, 1, Len(s) - 1))
    ELSE s

\* Lines a user may type at the main menu.
Lines == {<<>>, <<"x">>, <<"0">>, <<"1">>, <<"2">>, <<"3">>, <<"4">>, <<"5">>, <<"6">>}

\* int(x): blanks, an optional sign, one or more digits, blanks.
int(x) ==
    LET t == strip(x)
        signed == t # <<>> /\ t[1] \in {"+", "-"}
        digits == IF signed THEN Tail(t) ELSE t
    IN IF digits # <<>> /\ IsDigits(digits)
       THEN Return(PyInt(IF signed /\ t[1] = "-" THEN 0 - Decimal(digits) ELSE Decimal(digits)))
       ELSE Raise("ValueError", x)

\* A float with a finite decimal expansion: v / 10^places.
PyFloat(v, places) == [kind |-> "float", v |-> v, places |-> places]

\* float(x) for a line of digits with at most one point (the lines the
\* DOLLARS pattern lets through): at least one digit is needed.
float(x) ==
    LET t == strip(x)
        dots == {i \in 1..Len(t) : t[i] = "."}
        p == IF dots = {} THEN Len(t) + 1 ELSE CHOOSE i \in dots : TRUE
        whole == SubSeq(t, 1, p - 1)
        fraction == SubSeq(t, p + 1, Len(t))
    IN IF Cardinality(dots) <= 1 /\ IsDigits(whole) /\ IsDigits(fraction)
          /\ Len(whole) + Len(fraction) >= 1
       THEN Return(PyFloat(Decimal(whole \o fraction), Len(fraction)))
       ELSE Raise("ValueError", x)

\* bool(value)
Truthy(x) ==
    CASE x.kind = "none" -> FALSE
      [] x.kind \in {"int", "float"} -> x.v # 0
      [] x.kind = "str" -> x.v # <<>>
      [] OTHER -> TRUE

\* _MainOperation(n): the member with that value, or ValueError.
_MainOperationOf(n) ==
    IF \E name \in DOMAIN _MainOperation : _MainOperation[name] = n
    THEN Return(Member("_MainOperation",
                       CHOOSE name \in DOMAIN _MainOperation : _MainOperation[name] = n, n))
    ELSE Raise("ValueError", n)

\* The patterns of lib/ui/cli.py.
ANY == ".+"
DOLLARS == "^\\d*\\.?\\d{0,2}$"
YEARS == "^\\d{4}$"
MONTHS == "^\\d{1,2}$"
DAYS == "^\\d{1,2}$"

\* re.search(pattern, string) for these patterns.
re_search(pattern, string) ==
    CASE pattern = ANY -> Len(string) >= 1
      [] pattern = DOLLARS ->
            LET dots == {i \in 1..Len(string) : string[i] = "."}
                p == IF dots = {} THEN Len(string) + 1 ELSE CHOOSE i \in dots : TRUE
            IN /\ Cardinality(dots) <= 1
               /\ IsDigits(SubSeq(string, 1, p - 1))
               /\ IsDigits(SubSeq(string, p + 1, Len(string)))
               /\ Len(string) - p <= 2
      [] pattern = YEARS -> Len(string) = 4 /\ IsDigits(string)
      [] pattern \in {MONTHS, DAYS} -> Len(string) \in {1, 2} /\ IsDigits(string)

\* type_(user_input) for the conversions the prompts are given; the menu's is
\* lambda x: _MainOperation(int(x)).
Convert(type_, user_input) ==
    CASE type_ = "str" -> Return(PyStr(user_input))
      [] type_ = "int" -> int(user_input)
      [] type_ = "float" -> float(user_input)
      [] type_ = "_MainOperation" ->
            IF int(user_input).ok THEN _MainOperationOf(int(user_input).val.v)
            ELSE int(user_input)

\* The keyword arguments of a call of _prompt_until_valid and their defaults.
PromptArgs(type_, pattern, nullable, bounds, error) ==
    [type_ |-> type_, pattern |-> pattern, nullable |-> nullable, bounds |-> bounds,
     error |-> error]
NoBounds == <<>>
MenuError == "\nYou must choose a number from the menu. Try again."

\* A pass that lets the value through whatever the bounds.
_prompt_until_valid_unbounded(user_input, args) ==
    IF args.nullable /\ strip(user_input) = <<>> THEN Return(PyNone)
    ELSE IF ~re_search(args.pattern, user_input) THEN Raise("ValueError", user_input)
    ELSE Convert(args.type_, user_input)

\* A pass that takes a listed number without converting it to the enumeration.
_prompt_until_valid_untyped(user_input, args) ==
    IF ~re_search(args.pattern, user_input) THEN Raise("ValueError", user_input)
    ELSE IF args.type_ = "_MainOperation" THEN int(user_input)
    ELSE Convert(args.type_, user_input)

\* One pass of the loop of _prompt_until_valid on the line typed: the value
\* returned, or the ValueError the loop catches before it prints the error
\* and prompts again.
_prompt_until_valid(user_input, args) ==
    IF args.nullable /\ strip(user_input) = <<>> THEN Return(PyNone)
    ELSE IF ~re_search(args.pattern, user_input) THEN Raise("ValueError", user_input)
    ELSE LET typed_input == Convert(args.type_, user_input) IN
         IF ~typed_input.ok THEN typed_input
         ELSE IF args.bounds # NoBounds
                  /\ ~(args.bounds[1] <= typed_input.val.v /\ typed_input.val.v < args.bounds[2])
         THEN Raise("ValueError", user_input)
         ELSE typed_input

\* What the except clause prints (the default message without its quoting marks).
printed(args) ==
    IF args.error.kind # "none" THEN args.error.v
    ELSE "Input must be of type " \o args.type_ \o " and match pattern " \o args.pattern

\* cli._main_prompt: the arguments it passes.
MainPromptArgs == PromptArgs("_MainOperation", ANY, FALSE, NoBounds, PyStr(MenuError))

\* _main_prompt on one line.
main_prompt_line(user_input) == _prompt_until_valid(user_input, MainPromptArgs)

\* The database section launch_cli reads.
DbFields == <<"dialect", "driver", "host", "port", "database", "echo">>

\* Configurations launch_cli may be given: every field, or one field missing.
CliDoc ==
    Yaml({<<"database", "username", "u0">>, <<"database", "password", "p0">>}
         \cup {<<"database", DbFields[i], DbFields[i] \o "0">> : i \in 1..Len(DbFields)}
         \cup {<<"sgd_classifier", SgdFields[i], "1">> : i \in 1..Len(SgdFields)}
         \cup {<<"general", "model_path", "m0">>, <<"general", "log_path", "l0">>})
CliConfigurations ==
    {[conf |-> load(CliDoc), config_path |-> "cwd"]}
    \cup {[conf |-> load(Yaml(CliDoc.entries \ {e})), config_path |-> "cwd"] :
             e \in {<<"database", "password", "p0">>, <<"database", "host", "host0">>,
                    <<"sgd_classifier", "alpha", "1">>}}

\* Names and passwords typed at the credentials prompt.
Typed == {"alice", "bob"}

\* db.py:181-187: the class Session the module defines.
SessionPlaceholder == [kind |-> "class Session"]

\* What db.connect_database may meet: create_engine raises, create_all
\* raises (OperationalError when the server refuses the credentials), or
\* both return.
ConnectOutcomes == {"ok", "ArgumentError", "OperationalError", "ProgrammingError"}

\* A connect_database that binds Session before it creates the schema.
connect_database_binding_first(factory, url, call, outcome) ==
    IF outcome = "ArgumentError"
    THEN [outcome |-> Raise(outcome, "create_engine"), Session |-> factory]
    ELSE [outcome |-> IF outcome = "ok" THEN Return(PyNone) ELSE Raise(outcome, "create_all"),
          Session |-> [kind |-> "sessionmaker", bind |-> [url |-> url, call |-> call]]]

\* db.connect_database, db.py:106-119: the outcome of the call and the
\* global Session it leaves.  The engine is named by its URL and by the call
\* that created it.
connect_database(factory, url, call, outcome) ==
    IF outcome = "ArgumentError"
    THEN [outcome |-> Raise(outcome, "create_engine"), Session |-> factory]
    ELSE IF outcome # "ok"
    THEN [outcome |-> Raise(outcome, "create_all"), Session |-> factory]
    ELSE [outcome |-> Return(PyNone),
          Session |-> [kind |-> "sessionmaker", bind |-> [url |-> url, call |-> call]]]

\* db.Session(): the placeholder's constructor raises; a sessionmaker gives
\* a session bound to its engine.
NewSession(factory) ==
    IF factory = SessionPlaceholder
    THEN Raise("SessionNotDefinedError", "No database has been connected.")
    ELSE Return([kind |-> "session", bind |-> factory.bind])

\* launch_cli touches nothing of the configuration threads and of main.
OnlyCli == UNCHANGED <<cfgVars, mainVars, mlVars, constVars, promptVars, formVars>>

InitCli ==
    /\ c_pc = "welcome" /\ c_conf \in CliConfigurations /\ credentials = PyNone
    /\ attempts = <<>> /\ entered = <<>> /\ prompts = <<>> /\ main_op = PyNone /\ ml_trace = <<>>
    /\ Session = SessionPlaceholder

\* The first of the reads that raises, or the last read.
FirstFailure(outcomes) ==
    LET failing == {i \in 1..Len(outcomes) : ~outcomes[i].ok} IN
    IF failing = {} THEN outcomes[Len(outcomes)]
    ELSE outcomes[CHOOSE i \in failing : \A j \in failing : i <= j]

\* cli.py:85-89
CliStart ==
    /\ OnlyCli /\ UNCHANGED Session
    /\ c_pc = "welcome" /\ proc.state = "running"
    /\ LET username == get_field(c_conf, "database", "username")
           password == get_field(c_conf, "database", "password")
           read == FirstFailure(<<username, password>>)
       IN IF read.ok
          THEN /\ credentials' = [username |-> username.val.v, password |-> password.val.v]
               /\ c_pc' = "connect"
               /\ UNCHANGED proc
          ELSE /\ proc' = Uncaught(read, "launch_cli")
               /\ UNCHANGED <<credentials, c_pc>>
    /\ UNCHANGED <<c_conf, attempts, entered, prompts, main_op, ml_trace, log, shown, dispatched>>

\* _prompt_db_credentials with the user name and the password swapped.
_prompt_db_credentials_swapped(username, password) ==
    [username |-> password, password |-> username]

\* cli._prompt_db_credentials: the pair it returns for the two lines typed.
_prompt_db_credentials(username, password) ==
    [username |-> username, password |-> password]

\* cli.py:90-114: one connection attempt.  The arguments are read from the
\* configuration; connect_database succeeds, raises OperationalError or
\* raises another error.
CliConnect ==
    /\ OnlyCli
    /\ c_pc = "connect" /\ proc.state = "running"
    /\ LET read == FirstFailure([i \in 1..Len(DbFields) |-> get_field(c_conf, "database", DbFields[i])])
           where == [host |-> get_field(c_conf, "database", "host").val.v,
                     port |-> get_field(c_conf, "database", "port").val.v,
                     database |-> get_field(c_conf, "database", "database").val.v]
       IN IF ~read.ok
          THEN /\ proc' = Uncaught(read, "launch_cli")
               /\ UNCHANGED <<credentials, attempts, entered, c_pc, log, Session>>
          ELSE \E connected \in ConnectOutcomes :
                 /\ attempts' = Append(attempts, credentials)
                 /\ Session' = connect_database(Session, [credentials |-> credentials,
                                                          at |-> where],
                                                Len(attempts) + 1, connected).Session
                 /\ IF connected = "ok"
                    THEN /\ log' = Append(log, [level |-> "INFO", msg |-> where])
                         /\ c_pc' = "menu"
                         /\ UNCHANGED <<credentials, entered, proc>>
                    ELSE IF connected = "OperationalError"
                    THEN /\ Len(attempts) < MaxAttempts
                         /\ log' = Append(log, [level |-> "WARNING",
                                                 msg |-> "Database credentials not valid."])
                         /\ \E u \in Typed, pw \in Typed :
                               /\ entered' = Append(entered, [username |-> u, password |-> pw])
                               /\ credentials' = _prompt_db_credentials(u, pw)
                         /\ UNCHANGED <<c_pc, proc>>
                    ELSE /\ proc' = Uncaught(Raise(connected, "connect_database"), "launch_cli")
                         /\ UNCHANGED <<credentials, entered, c_pc, log>>
    /\ UNCHANGED <<c_conf, prompts, main_op, ml_trace, shown, dispatched>>

\* cli.py:120, a line _prompt_until_valid rejects: the error is printed and
\* the prompt shown again.
CliMainPromptRejects ==
    /\ OnlyCli /\ UNCHANGED Session
    /\ c_pc = "menu" /\ proc.state = "running" /\ Len(prompts) < MaxPrompts
    /\ \E line \in Lines :
          /\ ~main_prompt_line(line).ok
          /\ prompts' = Append(prompts, line)
    /\ UNCHANGED <<c_pc, c_conf, credentials, attempts, entered, main_op, ml_trace, procVars>>

\* cli.py:120, the line _prompt_until_valid accepts.
CliMainPromptReturns ==
    /\ OnlyCli /\ UNCHANGED Session
    /\ c_pc = "menu" /\ proc.state = "running"
    /\ \E line \in Lines :
          /\ main_prompt_line(line).ok
          /\ main_op' = main_prompt_line(line).val
    /\ prompts' = <<>>
    /\ c_pc' = "dispatch"
    /\ UNCHANGED <<c_conf, credentials, attempts, entered, ml_trace, procVars>>

\* A chain whose branches for the unimplemented choices run the add-entry flow.
launch_cli_branch_add_entry(selection) ==
    CASE selection.name = "construct_model" -> "construct_model"
      [] selection.name = "exit" -> "sys.exit"
      [] OTHER -> "_add_database_entry"

\* cli.py:121-134: the statement the if/elif chain runs for the selection.
launch_cli_branch(selection) ==
    CASE selection.name = "construct_model" -> "construct_model"
      [] selection.name = "add_database_entry" -> "_add_database_entry"
      [] selection.name = "parse_annual_report" -> "raise NotImplementedError"
      [] selection.name = "analyze_stock" -> "raise NotImplementedError"
      [] selection.name = "exit" -> "sys.exit"

\* cli.py:121-122
CliConstructModel ==
    /\ OnlyCli /\ UNCHANGED Session
    /\ c_pc = "dispatch" /\ proc.state = "running"
    /\ launch_cli_branch(main_op) = "construct_model"
    /\ LET call == construct_model(<<c_conf>>, c_conf) IN
       /\ ml_trace' = call.trace
       /\ dispatched' = Append(dispatched, "construct_model")
       /\ IF call.outcome.ok
          THEN c_pc' = "menu" /\ UNCHANGED proc
          ELSE proc' = Uncaught(call.outcome, "construct_model") /\ UNCHANGED c_pc
    /\ UNCHANGED <<c_conf, credentials, attempts, entered, prompts, main_op, log, shown>>

\* cli.py:124-125: _add_database_entry returns, and the loop goes on, or it
\* raises.
CliAddDatabaseEntry ==
    /\ OnlyCli /\ UNCHANGED Session
    /\ c_pc = "dispatch" /\ proc.state = "running"
    /\ launch_cli_branch(main_op) = "_add_database_entry"
    /\ Len(dispatched) < MaxIterations
    /\ dispatched' = Append(dispatched, "add_database_entry")
    /\ IF ~NewSession(Session).ok
       THEN \* cli.py:203
            proc' = Uncaught(NewSession(Session), "add_database_entry") /\ UNCHANGED c_pc
       ELSE \E returned \in BOOLEAN :
              IF returned
              THEN c_pc' = "menu" /\ UNCHANGED proc
              ELSE proc' = Uncaught(Raise("ValueError", "date"), "add_database_entry")
                       /\ UNCHANGED c_pc
    /\ UNCHANGED <<c_conf, credentials, attempts, entered, prompts, main_op, ml_trace, log, shown>>

\* cli.py:127-131
CliNotImplemented ==
    /\ OnlyCli /\ UNCHANGED Session
    /\ c_pc = "dispatch" /\ proc.state = "running"
    /\ launch_cli_branch(main_op) = "raise NotImplementedError"
    /\ dispatched' = Append(dispatched, main_op.name)
    /\ proc' = Uncaught(NotImplemented(<<>>), main_op.name)
    /\ UNCHANGED <<c_pc, c_conf, credentials, attempts, entered, prompts, main_op, ml_trace, log,
                   shown>>

\* cli.py:133-134
CliExit ==
    /\ OnlyCli /\ UNCHANGED Session
    /\ c_pc = "dispatch" /\ proc.state = "running" /\ launch_cli_branch(main_op) = "sys.exit"
    /\ dispatched' = Append(dispatched, "exit")
    /\ proc' = SysExit(value(Member("ExitCode", "success", data_ExitCode.success)), "exit")
    /\ UNCHANGED <<c_pc, c_conf, credentials, attempts, entered, prompts, main_op, ml_trace, log,
                   shown>>

---------------------------------------------------------------------------
(* Direct calls of the functions of lib/ml.py and lib/db.py.               *)

ArgValues == {PyNone, PyStr("x")}

OnlyMl == UNCHANGED <<cfgVars, mainVars, procVars, constVars, promptVars, formVars,
                      c_pc, credentials, attempts, entered, prompts,
                      main_op, ml_trace, Session>>

InitMl == ml_calls = <<>> /\ c_conf \in CliConfigurations

\* The record kept of one call.
Called(fn, args, outcome) == [fn |-> fn, args |-> args, outcome |-> outcome]

CallExtractTrainingData ==
    /\ OnlyMl /\ UNCHANGED c_conf /\ Len(ml_calls) < MaxMlCalls
    /\ \E a \in ArgValues :
          ml_calls' = Append(ml_calls, Called("extract_training_data", <<a>>,
                                              extract_training_data(a)))
CallTrainClassifier ==
    /\ OnlyMl /\ UNCHANGED c_conf /\ Len(ml_calls) < MaxMlCalls
    /\ \E a \in ArgValues, b \in ArgValues :
          ml_calls' = Append(ml_calls, Called("train_classifier", <<a, b>>,
                                              train_classifier(a, b)))
CallLoadModel ==
    /\ OnlyMl /\ UNCHANGED c_conf /\ Len(ml_calls) < MaxMlCalls
    /\ \E a \in ArgValues :
          ml_calls' = Append(ml_calls, Called("load_model", <<a>>, load_model(a)))
CallSaveModel ==
    /\ OnlyMl /\ UNCHANGED c_conf /\ Len(ml_calls) < MaxMlCalls
    /\ \E a \in ArgValues, b \in ArgValues :
          ml_calls' = Append(ml_calls, Called("save_model", <<a, b>>, save_model(a, b)))
CallEvaluateModel ==
    /\ OnlyMl /\ UNCHANGED c_conf /\ Len(ml_calls) < MaxMlCalls
    /\ \E a \in ArgValues, b \in ArgValues :
          ml_calls' = Append(ml_calls, Called("evaluate_model", <<a, b>>, evaluate_model(a, b)))
CallDbExtractTrainingData ==
    /\ OnlyMl /\ UNCHANGED c_conf /\ Len(ml_calls) < MaxMlCalls
    /\ \E a \in ArgValues :
          ml_calls' = Append(ml_calls, Called("db.extract_training_data", <<a>>,
                                              db_extract_training_data(a)))
CallConstructModel ==
    /\ OnlyMl /\ UNCHANGED c_conf /\ Len(ml_calls) < MaxMlCalls
    /\ ml_calls' = Append(ml_calls, Called("construct_model", <<>>,
                                           construct_model(<<>>, c_conf).outcome))

---------------------------------------------------------------------------
(* lib/ui/cli.py: calls of _prompt_until_valid.                            *)

\* Lines a user may type at the prompts of the forms.
FormLines ==
    {<<>>, <<" ">>, <<"x">>, <<"-", "1">>, <<" ", "2">>, <<".">>,
     <<"0">>, <<"1">>, <<"2">>, <<"3">>, <<"4">>, <<"5">>, <<"1", "3">>, <<"3", "0">>,
     <<"0", "0", "0", "0">>, <<"2", "0", "1", "4">>, <<"1", ".", "5">>,
     <<"1", ".", "5", "5", "5">>}

\* The arguments of the calls of _prompt_until_valid in lib/ui/cli.py.
TextArgs == PromptArgs("str", ANY, FALSE, NoBounds, PyNone)
SelectionArgs(new_industry) ==
    PromptArgs("int", ANY, FALSE, <<1, new_industry + 1>>, PyStr(MenuError))
PriceArgs == PromptArgs("float", DOLLARS, TRUE, NoBounds, PyNone)
YearArgs == PromptArgs("int", YEARS, TRUE, NoBounds, PyNone)
MonthArgs == PromptArgs("int", MONTHS, FALSE, NoBounds, PyNone)
DayArgs == PromptArgs("int", DAYS, FALSE, NoBounds, PyNone)
AmountArgs == PromptArgs("float", DOLLARS, FALSE, NoBounds, PyNone)
PromptCalls ==
    {MainPromptArgs, TextArgs, PriceArgs, YearArgs, MonthArgs, DayArgs, AmountArgs}
        \cup {SelectionArgs(n) : n \in 1..MaxOptions}

OnlyPrompt == UNCHANGED <<cfgVars, mainVars, procVars, cliVars, mlVars, constVars, formVars>>

InitPrompt == pv_args \in PromptCalls /\ pv_printed = <<>> /\ pv_result = PyNone

\* cli.py:356-378, a pass that ends in the except clause.
PromptRejects ==
    /\ OnlyPrompt
    /\ pv_result = PyNone /\ Len(pv_printed) < MaxRejected
    /\ \E user_input \in FormLines :
          /\ ~_prompt_until_valid(user_input, pv_args).ok
          /\ pv_printed' = Append(pv_printed, [line |-> user_input, printed |-> printed(pv_args)])
    /\ UNCHANGED <<pv_args, pv_result>>

\* cli.py:356-369, a pass that returns.
PromptReturns ==
    /\ OnlyPrompt
    /\ pv_result = PyNone
    /\ \E user_input \in FormLines :
          /\ _prompt_until_valid(user_input, pv_args).ok
          /\ pv_result' = [line |-> user_input, val |-> _prompt_until_valid(user_input, pv_args).val]
    /\ UNCHANGED <<pv_args, pv_printed>>

---------------------------------------------------------------------------
(* lib/db.py: the tables, and a session as the flow of lib/ui/cli.py uses   *)
(* it.  db_rows holds the committed rows; session holds the objects added   *)
(* and not yet committed.                                                  *)

\* class Industry(_Base): id is generated by the database at the INSERT.
Industry(name) == [table |-> "industries", id |-> PyNone, name |-> name]

\* class Company(_Base)
Company(id, industry_id, name) ==
    [table |-> "companies", id |-> id, industry_id |-> industry_id, name |-> name]

\* class Stock(_Base), constructed with the three columns the flow gives it.
Stock(company_id, price, date_) ==
    [table |-> "stocks", company_id |-> company_id, date |-> date_, price |-> price,
     earnings_per_share |-> PyNone, dividend |-> PyNone, dividend_payout_ratio |-> PyNone,
     intrinsic_value |-> PyNone]

\* class Finances(_Base), constructed with company, year and the nine amounts.
Finances(company_id, year, amounts) ==
    [table |-> "finances", company_id |-> company_id, year |-> year,
     return_on_equity |-> amounts[1], net_profit_margin |-> amounts[2],
     net_sales |-> amounts[3], net_income |-> amounts[4],
     earnings_per_share_growth |-> amounts[5], total_current_assets |-> amounts[6],
     total_current_liabilities |-> amounts[7], free_cash_flow |-> amounts[8],
     operating_margin |-> amounts[9]]

\* The columns declared nullable=False, by table.
NotNull ==
    [industries |-> {"name"},
     companies |-> {"industry_id", "name"},
     stocks |-> {"price", "earnings_per_share", "dividend", "dividend_payout_ratio"},
     finances |-> {"return_on_equity", "net_profit_margin", "net_sales", "net_income",
                   "earnings_per_share_growth", "total_current_assets",
                   "total_current_liabilities", "free_cash_flow", "operating_margin"}]

\* datetime.date(year, month, day)
DaysIn(year, month) ==
    IF month \in {4, 6, 9, 11} THEN 30
    ELSE IF month # 2 THEN 31
    ELSE IF year % 4 = 0 /\ (year % 100 # 0 \/ year % 400 = 0) THEN 29 ELSE 28
date(year, month, day) ==
    IF year \in 1..9999 /\ month \in 1..12 /\ day \in 1..DaysIn(year, month)
    THEN Return([kind |-> "date", year |-> year, month |-> month, day |-> day])
    ELSE Raise("ValueError", "date")

\* Whether the INSERT of obj into rows breaks a constraint of its table.
Violates(rows, obj) ==
    \/ \E column \in NotNull[obj.table] : obj[column] = PyNone
    \/ /\ obj.table = "industries"
       /\ \E x \in rows.industries : x.name = obj.name
    \/ /\ obj.table = "companies"
       /\ \/ \E c \in rows.companies : c.id = obj.id
          \/ ~\E x \in rows.industries : x.id = obj.industry_id
    \/ /\ obj.table = "stocks"
       /\ \/ \E x \in rows.stocks : x.company_id = obj.company_id /\ x.date = obj.date
          \/ ~\E c \in rows.companies : c.id = obj.company_id
    \/ /\ obj.table = "finances"
       /\ \/ \E x \in rows.finances : x.company_id = obj.company_id /\ x.year = obj.year
          \/ ~\E c \in rows.companies : c.id = obj.company_id

\* The INSERT of obj; autoincrement gives an industry the identifier after
\* the last one generated.
Insert(rows, obj) ==
    IF obj.table = "industries"
    THEN [rows EXCEPT !.industries = @ \cup {[obj EXCEPT !.id = PyInt(rows.generated + 1)]},
                      !.generated = @ + 1]
    ELSE [rows EXCEPT ![obj.table] = @ \cup {obj}]

\* The flush of the pending objects: the rows with them inserted, or the
\* IntegrityError of the first INSERT the database refuses.
RECURSIVE flush(_, _)
flush(rows, pending) ==
    IF pending = <<>> THEN Return(rows)
    ELSE IF Violates(rows, Head(pending)) THEN Raise("IntegrityError", Head(pending).table)
    ELSE flush(Insert(rows, Head(pending)), Tail(pending))

\* A query that finds no Finances row, whatever the table holds.
get_finance_record_never(rows, company_id, year) == FALSE

\* db.get_company_record, db.get_industries, db.get_industry_id,
\* db.get_finance_record on the rows the session sees.
get_company_record(rows, company_id) == \E c \in rows.companies : c.id = company_id
\* A list of the industries with the highest identifier first.
get_industries_descending(rows) ==
    [k \in 1..Cardinality(rows.industries) |->
        (CHOOSE x \in rows.industries :
             Cardinality({y \in rows.industries : y.id.v > x.id.v}) = k - 1).name]
\* sorted(industries, key=lambda x: x.id), then the names.
get_industries(rows) ==
    [k \in 1..Cardinality(rows.industries) |->
        (CHOOSE x \in rows.industries :
             Cardinality({y \in rows.industries : y.id.v < x.id.v}) = k - 1).name]
get_industry_id(rows, name) ==
    (CHOOSE x \in rows.industries : x.name = name).id
get_finance_record(rows, company_id, year) ==
    \E x \in rows.finances : x.company_id = company_id /\ x.year = date(year, 1, 1).val

---------------------------------------------------------------------------
(* lib/ui/cli.py: _add_database_entry and _prompt_financials.  One action   *)
(* per prompt: the line typed there and everything the flow does with it    *)
(* up to the next prompt or to its end.                                    *)

\* Lines typed at each prompt of the flow.
IdLines == {<<>>, <<"A">>, <<"B">>}
NameLines == {<<>>, <<"n">>}
IndustryNameLines == {<<>>, <<"t">>, <<"b">>}
SelectionLines == {<<"x">>, <<"0">>, <<"1">>, <<"2">>, <<"3">>, <<"4">>}
PriceLines == {<<>>, <<".">>, <<"0">>, <<"1", ".", "5">>}
YearLines == {<<>>, <<"x">>, <<"0", "0", "0", "0">>, <<"2", "0", "1", "4">>}
MonthLines == {<<>>, <<"2">>, <<"1", "3">>}
DayLines == {<<>>, <<"1">>, <<"3", "0">>}
AmountLines == {<<>>, <<"2">>}

\* The prompts of _prompt_financials after return on equity, in its order.
AmountPrompts ==
    <<"net_profit_margin", "net_sales", "net_income", "earnings_per_share_growth",
      "total_current_assets", "total_current_liabilities", "free_cash_flow",
      "operating_margin">>

\* Databases the flow may start on.
\* Databases the flow may start on: generated is the last identifier the
\* industries table generated.
EmptyRows ==
    [industries |-> {}, generated |-> 0, companies |-> {}, stocks |-> {}, finances |-> {}]
SeededRows ==
    [industries |-> {[Industry(PyStr(<<"t">>)) EXCEPT !.id = PyInt(1)]}, generated |-> 1,
     companies |-> {Company(PyStr(<<"A">>), PyInt(1), PyStr(<<"n">>))},
     stocks |-> {}, finances |-> {}]
\* Two industries left after the first one was deleted.
GappedRows ==
    [industries |-> {[Industry(PyStr(<<"t">>)) EXCEPT !.id = PyInt(2)],
                     [Industry(PyStr(<<"b">>)) EXCEPT !.id = PyInt(3)]},
     generated |-> 3,
     companies |-> {Company(PyStr(<<"A">>), PyInt(2), PyStr(<<"n">>))},
     stocks |-> {}, finances |-> {}]
SeededWithFinances ==
    [SeededRows EXCEPT !.finances =
        {Finances(PyStr(<<"A">>), date(2014, 1, 1).val, [i \in 1..9 |-> PyFloat(2, 0)])}]

\* The locals of the flow before it has assigned any.
NoLocals ==
    [company_id |-> PyNone, company_name |-> PyNone, prompt |-> <<>>, new_industry |-> PyNone,
     industry_id |-> PyNone, price |-> PyNone, year |-> PyNone, month |-> PyNone,
     amounts |-> <<>>]

\* cli.py:209-216: the numbered options of the industry prompt, in the order
\* the text lists them.
industry_prompt(industries, new_industry) ==
    [k \in 1..Len(industries) |->
        LET count == k - 1 IN [number |-> count + 1, industry |-> industries[k]]]
      \o <<[number |-> new_industry, industry |-> PyNone]>>

OnlyForm == UNCHANGED <<cfgVars, mainVars, procVars, cliVars, mlVars, constVars, promptVars>>

\* cli.py:203-204: the session is created and the first prompt shown.
InitForm ==
    /\ db_rows \in {EmptyRows, SeededRows, SeededWithFinances, GappedRows}
    /\ session = <<>> /\ f_pc = "company_id" /\ f_loc = NoLocals
    /\ f_prompts = <<"company_id">> /\ f_error = PyNone /\ f_added = <<>>
    /\ f_outcome = PyNone

\* The state of the flow as one record, and the steps of the flow on it.
Here ==
    [pc |-> f_pc, loc |-> f_loc, session |-> session, rows |-> db_rows, added |-> f_added,
     outcome |-> f_outcome]
Prompt(st, p) == [st EXCEPT !.pc = p]
\* session.add(obj)
Add(st, obj) == [st EXCEPT !.session = Append(@, obj), !.added = Append(@, obj)]
\* The flow ends: it returns, or an exception leaves it and the session with
\* what it holds is dropped.
Ends(st, outcome) == [st EXCEPT !.pc = "done", !.outcome = outcome, !.session = <<>>]

\* session.commit()
session_commit(st) ==
    LET flushed == flush(st.rows, st.session) IN
    IF flushed.ok THEN [st EXCEPT !.rows = flushed.val, !.session = <<>>]
    ELSE Ends(st, flushed)

\* cli.py:264
finish(st) ==
    LET committed == session_commit(st) IN
    IF committed.outcome # PyNone THEN committed ELSE Ends(committed, Return(PyNone))

\* An empty answer to return on equity that does not end the form.
financials_skipped_never(roe) == FALSE

\* cli.py:273-274: if not roe: return
financials_skipped(roe) == ~Truthy(roe)

\* cli.py:261-264: the query flushes the session before it runs.
after_stock(st) ==
    IF ~Truthy(st.loc.year) THEN finish(st)
    ELSE LET flushed == flush(st.rows, st.session) IN
         IF ~flushed.ok THEN Ends(st, flushed)
         ELSE IF get_finance_record(flushed.val, st.loc.company_id, st.loc.year.v) THEN finish(st)
         ELSE Prompt(st, "return_on_equity")

\* cli.py:246
after_year(st) ==
    IF Truthy(st.loc.price) /\ Truthy(st.loc.year) THEN Prompt(st, "month") ELSE after_stock(st)

\* cli.py:255-259
after_day(st, day) ==
    LET on == date(st.loc.year.v, st.loc.month.v, day.v) IN
    IF ~on.ok THEN Ends(st, on)
    ELSE after_stock(Add(st, Stock(st.loc.company_id, st.loc.price, on.val)))

\* cli.py:230-234
add_company(st, industry_id) ==
    Prompt(Add(st, Company(st.loc.company_id, industry_id, st.loc.company_name)), "price")

\* cli.py:225-228
add_industry(st, industry_name) ==
    LET committed == session_commit(Add(st, Industry(industry_name))) IN
    IF committed.outcome # PyNone THEN committed
    ELSE LET industry_id == get_industry_id(committed.rows, industry_name) IN
         add_company([committed EXCEPT !.loc.industry_id = industry_id], industry_id)

\* cli.py:307-320
add_finances(st) ==
    finish(Add(st, Finances(st.loc.company_id, date(st.loc.year.v, 1, 1).val, st.loc.amounts)))

\* The flow moves on to the state next.
Become(next) ==
    /\ f_pc' = next.pc /\ f_loc' = next.loc /\ session' = next.session
    /\ db_rows' = next.rows /\ f_added' = next.added /\ f_outcome' = next.outcome
    /\ f_prompts' = IF next.pc = "done" THEN f_prompts ELSE Append(f_prompts, next.pc)
    /\ f_error' = PyNone

\* The line is rejected: the message is printed and the same prompt shown.
Reprompt(args) ==
    /\ f_error' = PyStr(printed(args))
    /\ UNCHANGED <<db_rows, session, f_pc, f_loc, f_prompts, f_added, f_outcome>>

\* cli.py:204-206
EnterCompanyId ==
    /\ OnlyForm /\ f_pc = "company_id" /\ f_outcome = PyNone
    /\ \E user_input \in IdLines :
          LET r == _prompt_until_valid(user_input, TextArgs)
              st == [Here EXCEPT !.loc.company_id = r.val]
          IN IF ~r.ok THEN Reprompt(TextArgs)
             ELSE Become(IF get_company_record(db_rows, r.val) THEN Prompt(st, "price")
                         ELSE Prompt(st, "company_name"))

\* cli.py:207-216
EnterCompanyName ==
    /\ OnlyForm /\ f_pc = "company_name" /\ f_outcome = PyNone
    /\ \E user_input \in NameLines :
          LET r == _prompt_until_valid(user_input, TextArgs)
              industries == get_industries(db_rows)
              new_industry == IF industries # <<>> THEN (Len(industries) - 1) + 2 ELSE 1
          IN IF ~r.ok THEN Reprompt(TextArgs)
             ELSE Become(Prompt([Here EXCEPT !.loc.company_name = r.val,
                                             !.loc.prompt = industry_prompt(industries,
                                                                            new_industry),
                                             !.loc.new_industry = PyInt(new_industry)],
                                "industry"))

\* cli.py:218-223 and 230-234
EnterIndustry ==
    /\ OnlyForm /\ f_pc = "industry" /\ f_outcome = PyNone
    /\ \E user_input \in SelectionLines :
          LET args == SelectionArgs(f_loc.new_industry.v)
              industry_id == _prompt_until_valid(user_input, args)
              st == [Here EXCEPT !.loc.industry_id = industry_id.val]
          IN IF ~industry_id.ok THEN Reprompt(args)
             ELSE Become(IF industry_id.val = f_loc.new_industry
                         THEN Prompt(st, "industry_name")
                         ELSE add_company(st, industry_id.val))

\* cli.py:224-234
EnterIndustryName ==
    /\ OnlyForm /\ f_pc = "industry_name" /\ f_outcome = PyNone
    /\ \E user_input \in IndustryNameLines :
          LET industry_name == _prompt_until_valid(user_input, TextArgs)
          IN IF ~industry_name.ok THEN Reprompt(TextArgs)
             ELSE Become(add_industry(Here, industry_name.val))

\* cli.py:236-239
EnterPrice ==
    /\ OnlyForm /\ f_pc = "price" /\ f_outcome = PyNone
    /\ \E user_input \in PriceLines :
          LET price == _prompt_until_valid(user_input, PriceArgs)
          IN IF ~price.ok THEN Reprompt(PriceArgs)
             ELSE Become(Prompt([Here EXCEPT !.loc.price = price.val], "year"))

\* cli.py:241-246 and, with no stock to record, 261-264
EnterYear ==
    /\ OnlyForm /\ f_pc = "year" /\ f_outcome = PyNone
    /\ \E user_input \in YearLines :
          LET year == _prompt_until_valid(user_input, YearArgs)
          IN IF ~year.ok THEN Reprompt(YearArgs)
             ELSE Become(after_year([Here EXCEPT !.loc.year = year.val]))

\* cli.py:247-249
EnterMonth ==
    /\ OnlyForm /\ f_pc = "month" /\ f_outcome = PyNone
    /\ \E user_input \in MonthLines :
          LET month == _prompt_until_valid(user_input, MonthArgs)
          IN IF ~month.ok THEN Reprompt(MonthArgs)
             ELSE Become(Prompt([Here EXCEPT !.loc.month = month.val], "day"))

\* cli.py:251-264
EnterDay ==
    /\ OnlyForm /\ f_pc = "day" /\ f_outcome = PyNone
    /\ \E user_input \in DayLines :
          LET day == _prompt_until_valid(user_input, DayArgs)
          IN IF ~day.ok THEN Reprompt(DayArgs)
             ELSE Become(after_day(Here, day.val))

\* cli.py:268-274 and, when the form returns at once, 264
EnterReturnOnEquity ==
    /\ OnlyForm /\ f_pc = "return_on_equity" /\ f_outcome = PyNone
    /\ \E user_input \in PriceLines :
          LET roe == _prompt_until_valid(user_input, PriceArgs)
              st == [Here EXCEPT !.loc.amounts = <<roe.val>>]
          IN IF ~roe.ok THEN Reprompt(PriceArgs)
             ELSE Become(IF financials_skipped(roe.val) THEN finish(st)
                         ELSE Prompt(st, AmountPrompts[1]))

\* cli.py:276-320 and 264: one of the eight prompts that follow, and after
\* the last of them the Finances record and the commit.
EnterAmount ==
    /\ OnlyForm /\ f_outcome = PyNone
    /\ \E k \in 1..Len(AmountPrompts) :
          /\ f_pc = AmountPrompts[k]
          /\ \E user_input \in AmountLines :
                LET amount == _prompt_until_valid(user_input, AmountArgs)
                    st == [Here EXCEPT !.loc.amounts = Append(@, amount.val)]
                IN IF ~amount.ok THEN Reprompt(AmountArgs)
                   ELSE Become(IF k = Len(AmountPrompts) THEN add_finances(st)
                               ELSE Prompt(st, AmountPrompts[k + 1]))

\* cli.py:124-125 and 203-204: the flow is run again, by the event loop or by
\* a later run of the program, on the rows the database then holds.
AnotherEntry ==
    /\ OnlyForm /\ f_outcome # PyNone
    /\ session' = <<>> /\ f_pc' = "company_id" /\ f_loc' = NoLocals
    /\ f_prompts' = <<"company_id">> /\ f_error' = PyNone /\ f_added' = <<>>
    /\ f_outcome' = PyNone
    /\ UNCHANGED db_rows

---------------------------------------------------------------------------
(* lib/consts.py: the MainOperation string mappings (lib/ui/base.py holds   *)
(* the same definitions).                                                  *)

\* The items of the dict literal STR_TO_MAIN_OPERATION, in its order.
MainOperationItems ==
    <<<<"construct_model", MainOperationMember("construct_model")>>,
      <<"add_data", MainOperationMember("add_database_entry")>>,
      <<"analyze_stock", MainOperationMember("analyze_stock")>>>>

\* dict(items): a later item replaces an earlier one with the same key.
DictOf(items) ==
    [k \in {items[i][1] : i \in 1..Len(items)} |->
        items[CHOOSE i \in 1..Len(items) :
                  items[i][1] = k /\ \A j \in 1..Len(items) : items[j][1] = k => j <= i][2]]

STR_TO_MAIN_OPERATION == DictOf(MainOperationItems)

\* {value: key for key, value in STR_TO_MAIN_OPERATION.items()}
MAIN_OPERATION_TO_STR ==
    DictOf([i \in 1..Len(MainOperationItems) |->
               <<MainOperationItems[i][2], MainOperationItems[i][1]>>])

\* dict[key]
Subscript(dict, key) ==
    IF key \in DOMAIN dict THEN Return(dict[key]) ELSE Raise("KeyError", key)

\* Strings a caller may look up.
OperationStrings == {"construct_model", "add_data", "add_database_entry", "analyze_stock", "exit"}

OnlyConst == UNCHANGED <<cfgVars, mainVars, procVars, cliVars, mlVars, promptVars, formVars>>

\* MAIN_OPERATION_TO_STR[member]
LookupStr ==
    /\ OnlyConst /\ Len(conversions) < MaxConversions
    /\ \E name \in DOMAIN MainOperation :
          conversions' = Append(conversions,
              [op |-> "to_str", arg |-> MainOperationMember(name),
               outcome |-> Subscript(MAIN_OPERATION_TO_STR, MainOperationMember(name))])

\* STR_TO_MAIN_OPERATION[string]
LookupMainOperation ==
    /\ OnlyConst /\ Len(conversions) < MaxConversions
    /\ \E string \in OperationStrings :
          conversions' = Append(conversions,
              [op |-> "to_member", arg |-> string,
               outcome |-> Subscript(STR_TO_MAIN_OPERATION, string)])

---------------------------------------------------------------------------
(* lib/db.py: direct calls of connect_database and of Session.             *)

OnlyDb == UNCHANGED <<cfgVars, mainVars, procVars, constVars, promptVars, formVars,
                      c_pc, c_conf, credentials, attempts, entered, prompts, main_op, ml_trace>>

\* db.connect_database(...) with some user name and password.
CallConnectDatabase ==
    /\ OnlyDb /\ Len(ml_calls) < MaxDbCalls
    /\ \E u \in Typed, pw \in Typed, met \in ConnectOutcomes :
          LET url == [username |-> u, password |-> pw]
              call == connect_database(Session, url, Len(ml_calls) + 1, met)
          IN /\ ml_calls' = Append(ml_calls, Called("connect_database", <<url>>, call.outcome))
             /\ Session' = call.Session

\* db.Session()
CallSession ==
    /\ OnlyDb /\ Len(ml_calls) < MaxDbCalls
    /\ ml_calls' = Append(ml_calls, Called("Session", <<>>, NewSession(Session)))
    /\ UNCHANGED Session

---------------------------------------------------------------------------
(* Specifications.                                                         *)

IdleCfg ==
    /\ files = [l \in LocSet |-> NoFile] /\ insts = <<>> /\ _configuration = 0
    /\ _thread_lock = FALSE /\ pc = [t \in Threads |-> "idle"]
    /\ frame = [t \in Threads |-> NoFrame] /\ held = [t \in Threads |-> 0]
    /\ result = [t \in Threads |-> NoResult] /\ ncalls = 0
IdleMain ==
    /\ m_pc = "off" /\ argv = {} /\ cl_args = PyNone /\ m_configuration = 0
    /\ err_msg = PyNone /\ user_interface = "none" /\ reads = 0 /\ iterations = 0
IdleProc == log = <<>> /\ shown = <<>> /\ proc = [state |-> "running"] /\ dispatched = <<>>
IdleCli ==
    /\ c_pc = "off" /\ c_conf = PyNone /\ credentials = PyNone /\ attempts = <<>>
    /\ entered = <<>>
    /\ prompts = <<>> /\ main_op = PyNone /\ ml_trace = <<>> /\ Session = SessionPlaceholder
IdleMl == ml_calls = <<>>
IdleConst == conversions = <<>>
IdlePrompt == pv_args = PyNone /\ pv_printed = <<>> /\ pv_result = PyNone
IdleForm ==
    /\ db_rows = PyNone /\ session = <<>> /\ f_pc = "off" /\ f_loc = PyNone
    /\ f_prompts = <<>> /\ f_error = PyNone /\ f_added = <<>> /\ f_outcome = PyNone

\* Threads of one process sharing the configuration manager.
InitConfig ==
    /\ InitCfg /\ IdleMain /\ IdleProc /\ IdleCli /\ IdleMl
    /\ IdleConst /\ IdlePrompt /\ IdleForm
NextConfig ==
       \E t \in Threads :
          \/ CallGetConfig(t)
          \/ get_config_acquire(t)
          \/ get_config_check(t)
          \/ get_config_construct(t)
          \/ get_config_release(t)
          \/ get_config_return(t)
          \/ CallSetter(t)
          \/ update_field_acquire(t)
          \/ update_field_assign(t)
          \/ update_field_write(t)
          \/ update_field_release(t)
          \/ CallGetter(t)
          \/ get_field_acquire(t)
          \/ get_field_read(t)
          \/ get_field_release(t)
SpecConfig == InitConfig /\ [][NextConfig]_vars

\* The main controller, from the command line to the end of the process.
InitController ==
    /\ InitCfg /\ InitMain /\ IdleProc /\ IdleCli /\ IdleMl
    /\ IdleConst /\ IdlePrompt /\ IdleForm
NextController ==
    \/ MainParseCommandLine
    \/ configure_logging
    \/ MainGetConfig
    \/ launch_user_interface
    \/ MainCheckConfiguration
    \/ MainLoopRead
SpecController == InitController /\ [][NextController]_vars

\* The command line event loop.
InitLaunchCli ==
    /\ IdleCfg /\ IdleMain /\ IdleProc /\ InitCli /\ IdleMl
    /\ IdleConst /\ IdlePrompt /\ IdleForm
NextLaunchCli ==
    \/ CliStart
    \/ CliConnect
    \/ CliMainPromptRejects
    \/ CliMainPromptReturns
    \/ CliConstructModel
    \/ CliAddDatabaseEntry
    \/ CliNotImplemented
    \/ CliExit
SpecLaunchCli == InitLaunchCli /\ [][NextLaunchCli]_vars

\* Callers of the valuation-model subsystem.
InitModelCalls ==
    /\ IdleCfg /\ IdleMain /\ IdleProc
    /\ c_pc = "off" /\ credentials = PyNone /\ attempts = <<>> /\ entered = <<>>
    /\ prompts = <<>> /\ main_op = PyNone /\ ml_trace = <<>> /\ Session = SessionPlaceholder
    /\ InitMl
    /\ IdleConst /\ IdlePrompt /\ IdleForm
NextModelCalls ==
    \/ CallExtractTrainingData
    \/ CallTrainClassifier
    \/ CallLoadModel
    \/ CallSaveModel
    \/ CallEvaluateModel
    \/ CallDbExtractTrainingData
    \/ CallConstructModel
SpecModelCalls == InitModelCalls /\ [][NextModelCalls]_vars

\* Callers of db.connect_database and db.Session.
InitDatabaseSession ==
    /\ IdleCfg /\ IdleMain /\ IdleProc /\ IdleCli /\ IdleMl /\ IdleConst /\ IdlePrompt /\ IdleForm
NextDatabaseSession ==
    \/ CallConnectDatabase
    \/ CallSession
SpecDatabaseSession == InitDatabaseSession /\ [][NextDatabaseSession]_vars

\* Lookups in the MainOperation mappings.
InitMainOperationMap ==
    /\ IdleCfg /\ IdleMain /\ IdleProc /\ IdleCli /\ IdleMl /\ IdleConst /\ IdlePrompt /\ IdleForm
NextMainOperationMap ==
    \/ LookupStr
    \/ LookupMainOperation
SpecMainOperationMap == InitMainOperationMap /\ [][NextMainOperationMap]_vars

\* One call of _prompt_until_valid, with the arguments of any of its callers.
InitPromptUntilValid ==
    /\ IdleCfg /\ IdleMain /\ IdleProc /\ IdleCli /\ IdleMl /\ IdleConst /\ InitPrompt /\ IdleForm
NextPromptUntilValid ==
    \/ PromptRejects
    \/ PromptReturns
SpecPromptUntilValid == InitPromptUntilValid /\ [][NextPromptUntilValid]_vars

\* One run of _add_database_entry on a connected database.
InitAddDatabaseEntry ==
    /\ IdleCfg /\ IdleMain /\ IdleProc /\ IdleCli /\ IdleMl /\ IdleConst /\ IdlePrompt /\ InitForm
NextAddDatabaseEntry ==
    \/ EnterCompanyId
    \/ EnterCompanyName
    \/ EnterIndustry
    \/ EnterIndustryName
    \/ EnterPrice
    \/ EnterYear
    \/ EnterMonth
    \/ EnterDay
    \/ EnterReturnOnEquity
    \/ EnterAmount
SpecAddDatabaseEntry == InitAddDatabaseEntry /\ [][NextAddDatabaseEntry]_vars

\* Any number of runs of _add_database_entry, one after the other, on the
\* same database.
NextAddDatabaseEntries ==
    \/ EnterCompanyId
    \/ EnterCompanyName
    \/ EnterIndustry
    \/ EnterIndustryName
    \/ EnterPrice
    \/ EnterYear
    \/ EnterMonth
    \/ EnterDay
    \/ EnterReturnOnEquity
    \/ EnterAmount
    \/ AnotherEntry
SpecAddDatabaseEntries == InitAddDatabaseEntry /\ [][NextAddDatabaseEntries]_vars

---------------------------------------------------------------------------
(* Claims about the configuration manager, checked under SpecConfig.       *)

\* Positions between an acquire of the lock and the release that follows it.
InCritical == {"gc_check", "gc_construct", "gc_release",
               "uf_assign", "uf_write", "uf_release", "gf_read", "gf_release"}

\* C1: when the write of the file fails inside a setter, the field holds in
\* memory the value it held before the call, and the failure is re-raised.
C1_RollbackOnFailedWrite ==
    \A t \in Threads :
        /\ (pc[t] = "uf_release" /\ ~frame[t].error.ok) =>
              LET sec == GetItem(insts[frame[t].self].conf, frame[t].section)
                  now == IF sec.ok THEN GetItem(sec.val, frame[t].field) ELSE sec
              IN now.ok /\ now.val = frame[t].old_value
        /\ (pc[t] = "idle" /\ frame[t].op = "set_done" /\ ~frame[t].error.ok) =>
              ~result[t].ok /\ result[t].exc = frame[t].error.exc

\* C1: a setter whose write failed has finished.
C1_FailedWriteReached ==
    \E t \in Threads : pc[t] = "idle" /\ frame[t].op = "set_done" /\ ~frame[t].error.ok

\* C2: once a getter or a setter has returned or raised, and no other call is
\* between its acquire and its release, the configuration lock is free.
C2_LockFreeAfterAccessor ==
    \A t \in Threads :
        (pc[t] = "idle" /\ result[t].op \in {"get", "set"}
            /\ insts[held[t]].conf.kind = "map") =>
            (_thread_lock => \E u \in Threads : pc[u] \in InCritical)

\* The three locations in the order the specification gives them.
SearchOrder == <<"cwd", "environ", "install">>
Earliest(fs) ==
    LET having == {i \in 1..3 : exists(fs, SearchOrder[i])} IN
    IF having = {} THEN "none"
    ELSE SearchOrder[CHOOSE i \in having : \A j \in having : i <= j]

\* C6: a constructed configuration is loaded from the earliest of working
\* directory, environment directory and installation directory that holds a
\* file; construction raises ConfigFileNotFoundError when none of them does,
\* and only then.
C6_FirstMatchWins ==
    [][\A t \in Threads :
          (pc[t] = "gc_construct" /\ pc'[t] # "gc_construct") =>
              IF Earliest(files) = "none"
              THEN /\ insts' = insts
                   /\ ~result'[t].ok /\ result'[t].exc = "ConfigFileNotFoundError"
              ELSE IF Len(insts') > Len(insts)
              THEN insts'[Len(insts')] = [conf |-> load(files[Earliest(files)]),
                                          config_path |-> Earliest(files)]
              ELSE ~result'[t].ok /\ result'[t].exc # "ConfigFileNotFoundError"]_vars

\* C6: the environment directory's file was loaded although the installation
\* directory holds one too.
C6_EnvironBeforeInstall ==
    /\ Len(insts) > 0 /\ insts[1].config_path = "environ"
    /\ exists(files, "install") /\ ~exists(files, "cwd")

\* Whether conf, a mapping, lacks the field or its whole section.
Absent(conf, section, field) ==
    /\ conf.kind = "map"
    /\ \/ section \notin DOMAIN conf.m
       \/ conf.m[section].kind = "map" /\ field \notin DOMAIN conf.m[section].m

\* C7: reading a field that is missing from its section, or whose section is
\* missing, raises ConfigFileCorruptError naming the section, the field and
\* the path of the file; it returns no value and leaves the configuration as
\* it was.
C7_MissingFieldIsCorrupt ==
    [][\A t \in Threads :
          /\ (pc[t] = "gf_read" /\ pc'[t] = "gf_release"
                 /\ Absent(insts[frame[t].self].conf, frame[t].section, frame[t].field)) =>
                /\ ~frame'[t].value.ok
                /\ frame'[t].value.exc = "ConfigFileCorruptError"
                /\ frame'[t].value.msg = [section |-> frame[t].section,
                                          field |-> frame[t].field,
                                          path |-> insts[frame[t].self].config_path]
                /\ insts' = insts
          /\ (pc[t] = "gf_release" /\ pc'[t] = "idle" /\ _thread_lock) =>
                /\ result'[t].ok = frame[t].value.ok
                /\ ~result'[t].ok => /\ result'[t].exc = frame[t].value.exc
                                     /\ result'[t].msg = frame[t].value.msg
                /\ insts' = insts]_vars

\* C7: a getter has raised ConfigFileCorruptError for general.model_path.
C7_CorruptRaised ==
    \E t \in Threads :
        /\ result[t].op = "get" /\ ~result[t].ok
        /\ result[t].exc = "ConfigFileCorruptError"
        /\ result[t].msg.section = "general" /\ result[t].msg.field = "model_path"

\* C8: however the get_config calls of several threads interleave, at most
\* one configuration object is constructed, every call that returns returns
\* that object, and a call constructs only while none is cached.
C8_SingleInstance ==
    /\ Len(insts) <= 1
    /\ _configuration \in {0, 1}
    /\ \A t \in Threads :
          /\ (result[t].op = "get_config" /\ result[t].ok) => result[t].val = 1
          /\ pc[t] = "gc_construct" => _configuration = 0

\* C8: two threads have both got the instance from get_config.
C8_BothThreadsReturned ==
    \A t \in Threads : result[t].op = "get_config" /\ result[t].ok /\ result[t].val = 1

---------------------------------------------------------------------------
(* Claims about the main controller, checked under SpecController.         *)

\* C3: when the user selects exit, the process ends with exit status 0 and
\* nothing is dispatched after the selection.
C3_ExitSelectionEndsWithStatus0 ==
    (proc.state = "exited" /\ proc.at = "exit") =>
        /\ proc.status = 0
        /\ dispatched[Len(dispatched)] = "exit"

\* C4: a ConfigFileCorruptError raised inside the main loop is logged at
\* critical severity, shown through show_error, and the process then ends
\* with exit status 2.
C4_CorruptConfigEndsWithStatus2 ==
    (proc.state = "exited" /\ proc.at = "except") =>
        /\ Len(log) > 0 /\ log[Len(log)].level = "CRITICAL"
        /\ log[Len(log)].msg.exc = "ConfigFileCorruptError"
        /\ Len(shown) > 0 /\ shown[Len(shown)] = StrOf(log[Len(log)].msg)
        /\ proc.status = 2

\* C5: when get_config fails at startup with a ConfigurationError or an
\* OSError, the failure is logged at critical severity, the main loop is
\* never entered, and the process ends only with the user interface
\* constructed, the error shown through it, and exit status 1.
C5_StartupFailureShownThenStatus1 ==
    err_msg # PyNone =>
        /\ err_msg.of.exc \in {"ConfigFileNotFoundError", "OSError"}
        /\ log = <<[level |-> "CRITICAL", msg |-> err_msg.of]>>
        /\ m_configuration = 0 /\ m_pc # "loop" /\ iterations = 0 /\ dispatched = <<>>
        /\ proc.state = "exited" =>
              /\ user_interface = "cli"
              /\ shown = <<err_msg>>
              /\ proc.cause = "sys.exit" /\ proc.status = 1

\* C5: the process has ended after a settings file was found nowhere.
C5_NotFoundProcessEnded ==
    /\ err_msg # PyNone /\ err_msg.of.exc = "ConfigFileNotFoundError"
    /\ proc.state = "exited" /\ shown # <<>>

---------------------------------------------------------------------------
(* Claims about the valuation-model subsystem.                             *)

Unimplemented == {"extract_training_data", "train_classifier", "load_model", "save_model",
                  "evaluate_model", "db.extract_training_data"}

\* C9: every call of extract_training_data, train_classifier, load_model,
\* save_model and evaluate_model raises NotImplementedError, whatever its
\* arguments; none returns.  Checked under SpecModelCalls.
C9_StubsRaiseNotImplemented ==
    \A i \in 1..Len(ml_calls) :
        ml_calls[i].fn \in Unimplemented =>
            ~ml_calls[i].outcome.ok /\ ml_calls[i].outcome.exc = "NotImplementedError"

\* C9: load_model and save_model have both been called.
C9_StubsCalled ==
    /\ Len(ml_calls) = 2
    /\ ml_calls[1].fn = "load_model" /\ ml_calls[1].args = <<PyStr("x")>>
    /\ ml_calls[2].fn = "save_model"

\* C10: construct model, chosen at the menu with a complete configuration,
\* runs get_config, create_classifier and extract_training_data in that
\* order and ends with the NotImplementedError of extract_training_data.
\* Checked under SpecLaunchCli.
C10_ConstructModelEndsNotImplemented ==
    (proc.state = "exited" /\ proc.at = "construct_model" /\ c_conf.conf = load(CliDoc)) =>
        /\ proc.cause = "NotImplementedError"
        /\ ml_trace = <<"get_config", "create_classifier", "extract_training_data">>

\* C10: the same of a direct call construct_model(), which passes no
\* argument.  Checked under SpecModelCalls.
C10_DirectCallEndsNotImplemented ==
    \A i \in 1..Len(ml_calls) :
        (ml_calls[i].fn = "construct_model" /\ c_conf.conf = load(CliDoc)) =>
            ~ml_calls[i].outcome.ok /\ ml_calls[i].outcome.exc = "NotImplementedError"

---------------------------------------------------------------------------
(* Claims about the command line and the connection loop.                  *)

\* C11: with the graphical flag on the command line, startup ends with the
\* NotImplementedError of launch_user_interface; no user interface is
\* constructed and the main loop is not entered.  Under SpecController.
C11_GraphicalFlagRaisesNotImplemented ==
    ("-g" \in argv /\ proc.state = "exited") =>
        /\ proc.cause = "NotImplementedError" /\ proc.at = "launch_user_interface"
        /\ user_interface = "none" /\ iterations = 0

\* The log records of one level.
Records(level) == {i \in 1..Len(log) : log[i].level = level}

\* C13: the first connection attempt uses the configured user name and
\* password; every failed attempt logs a warning and is followed by a
\* credentials prompt, and the attempt after it uses what was typed there;
\* the menu is reached only after an attempt succeeded, no attempt follows a
\* success, and the success record names the configured host, port and
\* database.  Under SpecLaunchCli.
C13_ConnectRetriesWithEnteredCredentials ==
    /\ Len(attempts) >= 1 =>
          attempts[1] = [username |-> get_field(c_conf, "database", "username").val.v,
                         password |-> get_field(c_conf, "database", "password").val.v]
    /\ \A i \in 2..Len(attempts) : attempts[i] = entered[i - 1]
    /\ Cardinality(Records("WARNING")) = Len(entered)
    /\ Cardinality(Records("INFO")) <= 1
    /\ Len(attempts) = Len(entered) + Cardinality(Records("INFO"))
           \/ (proc.state = "exited" /\ Len(attempts) = Len(entered) + 1)
    /\ Records("INFO") # {} =>
          /\ Records("INFO") = {Len(log)}
          /\ log[Len(log)].msg = [host |-> "host0", port |-> "port0", database |-> "database0"]
    /\ (c_pc \in {"menu", "dispatch"} \/ prompts # <<>> \/ main_op # PyNone) =>
          Records("INFO") # {}

\* C13: the first attempt failed, alice/bob was typed, and the second
\* attempt succeeded.
C13_FailureThenSuccess ==
    /\ Len(attempts) = 2 /\ entered = <<[username |-> "alice", password |-> "bob"]>>
    /\ c_pc = "menu" /\ Records("INFO") # {}

---------------------------------------------------------------------------
(* Claims about lib/consts.py, under SpecMainOperationMap.                 *)

\* C12: every MainOperation value has a string in MAIN_OPERATION_TO_STR,
\* the string leads back to the value through STR_TO_MAIN_OPERATION, and two
\* different values never get the same string.
C12_MainOperationMappingBijective ==
    \A i \in 1..Len(conversions) :
        conversions[i].op = "to_str" =>
            /\ conversions[i].outcome.ok
            /\ Subscript(STR_TO_MAIN_OPERATION, conversions[i].outcome.val)
                   = Return(conversions[i].arg)
            /\ \A j \in 1..Len(conversions) :
                  (conversions[j].op = "to_str" /\ conversions[j].arg # conversions[i].arg)
                      => conversions[j].outcome # conversions[i].outcome

---------------------------------------------------------------------------
(* Claims about the prompts, under SpecPromptUntilValid.                   *)

\* The options the text of the main menu lists, by number.
MenuText == <<"construct_model", "add_database_entry", "parse_annual_report", "analyze_stock",
              "exit">>

\* Whether a line reads as one of the integers lo..hi.
Denotes(line, lo, hi) == int(line).ok /\ lo <= int(line).val.v /\ int(line).val.v <= hi

\* C19: the main menu prompt rejects every line that is not the number of a
\* listed option, printing the fixed message each time, and returns at the
\* first line that is one, with the member of _MainOperation the menu text
\* shows for that number.
C19_MainPromptReturnsListedOperation ==
    pv_args = MainPromptArgs =>
        /\ \A i \in 1..Len(pv_printed) :
              /\ ~Denotes(pv_printed[i].line, 1, Len(MenuText))
              /\ pv_printed[i].printed = "\nYou must choose a number from the menu. Try again."
        /\ pv_result # PyNone =>
              /\ Denotes(pv_result.line, 1, Len(MenuText))
              /\ pv_result.val.kind = "enum" /\ pv_result.val.cls = "_MainOperation"
              /\ pv_result.val.name = MenuText[int(pv_result.line).val.v]

\* C19: the menu rejected a word and a number that is not listed, then
\* returned parse_annual_report for the line 3.
C19_RejectedThenReturned ==
    /\ pv_args = MainPromptArgs
    /\ Len(pv_printed) = 2 /\ pv_printed[1].line = <<"x">> /\ pv_printed[2].line = <<"0">>
    /\ pv_result # PyNone /\ pv_result.line = <<"3">>

\* C20: with int conversion and bounds (1, N + 1) the prompt returns exactly
\* the inputs 1..N, as the integer typed, and rejects every other integer
\* with a message; a nullable prompt returns None for an empty line and a
\* prompt that is not nullable never returns for one.
C20_BoundsAndNullable ==
    /\ \A n \in 1..MaxOptions :
          pv_args = SelectionArgs(n) =>
              /\ \A i \in 1..Len(pv_printed) :
                    ~Denotes(pv_printed[i].line, 1, n) /\ pv_printed[i].printed # ""
              /\ pv_result # PyNone =>
                    /\ Denotes(pv_result.line, 1, n)
                    /\ pv_result.val = PyInt(int(pv_result.line).val.v)
    /\ pv_args # PyNone =>
          /\ \A i \in 1..Len(pv_printed) :
                pv_printed[i].line = <<>> => ~pv_args.nullable
          /\ (pv_result # PyNone /\ pv_result.line = <<>>) =>
                pv_args.nullable /\ pv_result.val = PyNone

\* C20: with bounds (1, 3) the prompt rejected 0 and 3 and returned 2.
C20_OutOfBoundsRejected ==
    /\ pv_args = SelectionArgs(2)
    /\ Len(pv_printed) = 2 /\ pv_printed[1].line = <<"0">> /\ pv_printed[2].line = <<"3">>
    /\ pv_result # PyNone /\ pv_result.line = <<"2">>

---------------------------------------------------------------------------
(* Claims about the add-database-entry flow, under SpecAddDatabaseEntry.   *)

\* Whether an object the flow added is among the committed rows.
Durable(obj) ==
    IF obj.table = "industries"
    THEN \E x \in db_rows.industries : x.name = obj.name
    ELSE obj \in db_rows[obj.table]

\* Whether the prompts named were shown, one after the other, last of all.
ShownLast(names) ==
    /\ Len(f_prompts) >= Len(names)
    /\ SubSeq(f_prompts, Len(f_prompts) - Len(names) + 1, Len(f_prompts)) = names

Shown(name) == \E i \in 1..Len(f_prompts) : f_prompts[i] = name

\* C14: when the flow has ended, whether by returning or with an error,
\* either every object it added is committed or none is.
C14_AdditionsCommittedAsOneUnit ==
    f_outcome # PyNone =>
        \/ \A i \in 1..Len(f_added) : Durable(f_added[i])
        \/ \A i \in 1..Len(f_added) : ~Durable(f_added[i])

\* C15: an empty answer to return on equity ends the form at once: none of
\* the eight prompts that follow is shown, no Finances object is added and
\* no Finances row exists for that company and year.
C15_EmptyReturnOnEquityEndsForm ==
    (f_loc # PyNone /\ f_loc.amounts # <<>> /\ f_loc.amounts[1] = PyNone) =>
        /\ f_pc = "done" /\ f_loc.amounts = <<PyNone>>
        /\ \A k \in 1..Len(AmountPrompts) : ~Shown(AmountPrompts[k])
        /\ \A i \in 1..Len(f_added) : f_added[i].table # "finances"
        /\ ~get_finance_record(db_rows, f_loc.company_id, f_loc.year.v)

\* C15: return on equity was answered with an empty line and the flow
\* returned.
C15_EmptyReturnOnEquityAnswered ==
    /\ f_loc # PyNone /\ f_loc.amounts = <<PyNone>> /\ f_outcome = Return(PyNone)
    /\ Shown("return_on_equity")

\* C16: when both the price and the year were answered with a value, the
\* flow asks for month and day and, when it returns, a Stock row of that
\* company with that price and date is committed; month and day are skipped
\* and no Stock is added only when price or year was left empty.
C16_PriceAndYearRecordStock ==
    f_outcome # PyNone =>
        IF f_loc.price # PyNone /\ f_loc.year # PyNone
        THEN /\ Shown("month") /\ Shown("day")
             /\ f_outcome.ok =>
                   \E x \in db_rows.stocks :
                       /\ x.company_id = f_loc.company_id /\ x.price = f_loc.price
                       /\ x.date.year = f_loc.year.v /\ x.date.month = f_loc.month.v
        ELSE /\ ~Shown("month") /\ ~Shown("day")
             /\ \A i \in 1..Len(f_added) : f_added[i].table # "stocks"

\* C17: when return on equity was answered with a value, the eight prompts
\* that follow are shown in their order and one Finances row of that company
\* and year holding the nine values is added and committed.
C17_ReturnOnEquityRecordsFinances ==
    (f_outcome # PyNone /\ f_loc.amounts # <<>> /\ f_loc.amounts[1] # PyNone) =>
        /\ ShownLast(<<"return_on_equity">> \o AmountPrompts)
        /\ Len(f_loc.amounts) = 9
        /\ f_added[Len(f_added)]
              = Finances(f_loc.company_id, date(f_loc.year.v, 1, 1).val, f_loc.amounts)
        /\ Durable(f_added[Len(f_added)])

\* C18: no line typed into the flow makes a ValueError leave
\* _add_database_entry.
C18_NoValueErrorLeavesTheFlow ==
    f_outcome # PyNone => (f_outcome.ok \/ f_outcome.exc # "ValueError")

---------------------------------------------------------------------------
(* Claims about the industry menu of the flow, under SpecAddDatabaseEntry. *)

\* The generated identifier of the committed industry with that name.
IdOf(name) == (CHOOSE x \in db_rows.industries : x.name = name).id

\* C21: while the industry prompt is shown, with N industries in the table:
\* options 1..N list every industry once, in ascending order of generated
\* identifier; the option to add a new industry has the number N + 1; and a
\* line is accepted exactly when it reads as one of 1..N + 1.
C21_IndustryMenuNumbered ==
    f_pc = "industry" =>
        LET N == Cardinality(db_rows.industries) IN
        /\ Len(f_loc.prompt) = N + 1
        /\ \A k \in 1..N + 1 : f_loc.prompt[k].number = k
        /\ {f_loc.prompt[k].industry : k \in 1..N} = {x.name : x \in db_rows.industries}
        /\ \A j \in 1..N, k \in 1..N :
              j < k => IdOf(f_loc.prompt[j].industry).v < IdOf(f_loc.prompt[k].industry).v
        /\ f_loc.prompt[N + 1].industry = PyNone
        /\ \A line \in SelectionLines :
              _prompt_until_valid(line, SelectionArgs(f_loc.new_industry.v)).ok
                  <=> Denotes(line, 1, N + 1)

\* C21: the prompt is shown for a table of two industries, after a line out
\* of the range was rejected.
C21_TwoIndustriesListed ==
    /\ f_pc = "industry" /\ Cardinality(db_rows.industries) = 2
    /\ f_error = PyStr(MenuError)

\* C25: when an existing industry was picked at position k, the Company the
\* flow adds carries the generated identifier of the industry the prompt
\* listed at position k.
C25_CompanyGetsListedIndustry ==
    \A i \in 1..Len(f_added) :
        (f_added[i].table = "companies" /\ ~Shown("industry_name")) =>
            f_added[i].industry_id = IdOf(f_loc.prompt[f_loc.industry_id.v].industry)

\* C26: over any sequence of flows the Finances table holds at most one row
\* per company and year; the financial-statement form is entered only with
\* a year given and no Finances row for that company on January 1st of that
\* year; and a row the table holds is never changed or removed.  Under
\* SpecAddDatabaseEntries.
C26_OneFinancesRecordPerYear ==
    /\ [](f_pc # "off" =>
             \A x \in db_rows.finances, y \in db_rows.finances :
                 (x.company_id = y.company_id /\ x.year = y.year) => x = y)
    /\ [][/\ (f_pc # "return_on_equity" /\ f_pc' = "return_on_equity") =>
                /\ f_loc'.year # PyNone
                /\ date(f_loc'.year.v, 1, 1).ok
                /\ ~\E x \in db_rows.finances :
                       /\ x.company_id = f_loc'.company_id
                       /\ x.year = date(f_loc'.year.v, 1, 1).val
           /\ db_rows.finances \subseteq db_rows'.finances]_vars

\* C26: one flow recorded the finances of company B for 2014, and a later
\* flow given the same company and year returned without showing the form.
C26_SecondFlowSkipsForm ==
    /\ f_outcome = Return(PyNone) /\ f_loc.company_id = PyStr(<<"B">>)
    /\ f_loc.year = PyInt(2014) /\ ~Shown("return_on_equity")
    /\ \E x \in db_rows.finances : x.company_id = PyStr(<<"B">>)

---------------------------------------------------------------------------
(* Further claims about the configuration manager, under SpecConfig.       *)

\* Whether two mappings of sections differ at most in that field.
SameBut(before, after, section, field) ==
    /\ after.kind = "map" /\ DOMAIN after.m = DOMAIN before.m
    /\ \A k \in DOMAIN before.m \ {section} : after.m[k] = before.m[k]
    /\ after.m[section].kind = "map" /\ DOMAIN after.m[section].m = DOMAIN before.m[section].m
    /\ \A f \in DOMAIN before.m[section].m \ {field} :
          after.m[section].m[f] = before.m[section].m[f]

\* C22: a setter of model_path or log_path given the string s changes that
\* field alone in memory; nothing else changes the structure before the
\* write; and when the write succeeds a read of the field returns s, and the
\* file holds the serialization of the whole structure, which loads back as
\* that structure.
C22_SetThenGetReturnsValue ==
    [][\A t \in Threads :
          LET f == frame[t]
              self == insts[f.self]
              after == insts'[f.self]
          IN /\ (pc[t] = "uf_assign" /\ pc'[t] = "uf_write") =>
                   SameBut(self.conf, after.conf, f.section, f.field)
             /\ (pc[t] = "uf_write" /\ pc'[t] = "uf_write") =>
                   insts' = insts /\ files' = files
             /\ (pc[t] = "uf_write" /\ pc'[t] = "uf_release" /\ frame'[t].error.ok
                    /\ f.new_value = PyStr("p1")) =>
                   /\ after = self
                   /\ get_field(after, f.section, f.field) = Return(PyStr("p1"))
                   /\ files'[after.config_path] = dump(after.conf)
                   /\ load(files'[after.config_path]) = after.conf
                   /\ \A l \in LocSet \ {after.config_path} : files'[l] = files[l]]_vars

\* C22: a thread has set model_path to the string p1 and the write succeeded.
C22_ModelPathWritten ==
    \E t \in Threads :
        /\ pc[t] = "idle" /\ frame[t].op = "set_done" /\ frame[t].error.ok
        /\ frame[t].field = "model_path" /\ frame[t].new_value = PyStr("p1")
        /\ files[insts[frame[t].self].config_path] = dump(insts[frame[t].self].conf)

\* C24: once a get_config call has raised out of the construction, no
\* instance is cached and the configuration lock is free, so that the
\* acquire of a later call returns.
C24_FailedGetConfigLeavesLockFree ==
    \A t \in Threads :
        (pc[t] = "idle" /\ result[t].op = "get_config" /\ ~result[t].ok) =>
            /\ _configuration = 0
            /\ _thread_lock => \E u \in Threads : pc[u] \in InCritical

\* C27: a settings file that is found but cannot be parsed makes get_config
\* raise ConfigFileCorruptError, and one that parses to something other than
\* a mapping makes the read of a field raise ConfigFileCorruptError; neither
\* ends in an error of another class.
C27_MalformedFileIsCorruptError ==
    \A t \in Threads :
        /\ (result[t].op = "get_config" /\ ~result[t].ok /\ FindConfigPath(files) # "none"
               /\ files[FindConfigPath(files)].kind = "garbage") =>
              result[t].exc = "ConfigFileCorruptError"
        /\ (result[t].op = "get" /\ insts[held[t]].conf.kind # "map") =>
              ~result[t].ok /\ result[t].exc = "ConfigFileCorruptError"

---------------------------------------------------------------------------
(* Claims about the main loops.                                            *)

Names(msg, word) == \E i \in 1..Len(msg) : msg[i] = word

\* C28: the NotImplementedError of extract_training_data, train_classifier,
\* load_model, save_model and evaluate_model carries a message that has the
\* name of the function called.  Under SpecModelCalls.
C28_NotImplementedNamesOperation ==
    \A i \in 1..Len(ml_calls) :
        ml_calls[i].fn \in {"extract_training_data", "train_classifier", "load_model",
                            "save_model", "evaluate_model"} =>
            ~ml_calls[i].outcome.ok /\ Names(ml_calls[i].outcome.msg, ml_calls[i].fn)

\* C29: the branch the main loop of infinium.main takes for
\* add_database_entry runs the add-entry flow; it does not end the process
\* with the not-implemented failure.  Under SpecController.
C29_AddEntryRunsTheFlow ==
    (proc.state = "exited" /\ dispatched # <<>>
        /\ dispatched[Len(dispatched)] = "add_database_entry") =>
        proc.cause # "NotImplementedError"

\* C30: in an iteration of the main loop of infinium.main the user
\* interface is asked for the main operation once.  Under SpecController.
C30_OneReadPerIteration == reads <= iterations

---------------------------------------------------------------------------
(* Claims about the database session.                                      *)

\* The connect_database calls among the first n calls that returned.
Connected(n) ==
    {j \in 1..n : ml_calls[j].fn = "connect_database" /\ ml_calls[j].outcome.ok}

\* The session factory bound to the engine of the last of them.
FactoryAfter(n) ==
    IF Connected(n) = {} THEN SessionPlaceholder
    ELSE LET j == CHOOSE j \in Connected(n) : \A k \in Connected(n) : k <= j
         IN [kind |-> "sessionmaker", bind |-> [url |-> ml_calls[j].args[1], call |-> j]]

\* C31: after any calls of connect_database and Session, db.Session is the
\* class that raises SessionNotDefinedError while no connect_database call
\* has returned, and otherwise the factory bound to the engine of the last
\* call that returned; a call that raised changed nothing; and every
\* Session() raised SessionNotDefinedError or gave a session of the engine
\* connected last before it.  Under SpecDatabaseSession.
C31_SessionFollowsLastConnection ==
    /\ Session = FactoryAfter(Len(ml_calls))
    /\ \A i \in 1..Len(ml_calls) :
          ml_calls[i].fn = "Session" =>
              IF Connected(i - 1) = {}
              THEN /\ ~ml_calls[i].outcome.ok
                   /\ ml_calls[i].outcome.exc = "SessionNotDefinedError"
              ELSE ml_calls[i].outcome
                       = Return([kind |-> "session", bind |-> FactoryAfter(i - 1).bind])

\* C31: a connection succeeded, a second one was refused, and the session
\* made after it is bound to the engine of the first.
C31_SessionAfterRefusedReconnect ==
    /\ Len(ml_calls) = 3
    /\ ml_calls[1].fn = "connect_database" /\ ml_calls[1].outcome.ok
    /\ ml_calls[2].fn = "connect_database" /\ ~ml_calls[2].outcome.ok
    /\ ml_calls[2].outcome.exc = "OperationalError"
    /\ ml_calls[3].fn = "Session" /\ ml_calls[3].outcome.ok
    /\ ml_calls[3].outcome.val.bind.call = 1

\* C31: in launch_cli the add-entry flow is dispatched only with db.Session
\* bound to the engine of the last connection attempt, which succeeded, and
\* never ends with SessionNotDefinedError.  Under SpecLaunchCli.
C31_FlowRunsOnConnectedSession ==
    (c_pc \in {"menu", "dispatch"} \/ dispatched # <<>>) =>
        /\ Session.kind = "sessionmaker" /\ Session.bind.call = Len(attempts)
        /\ Session.bind.url.credentials = attempts[Len(attempts)]
        /\ proc.state = "exited" => proc.cause # "SessionNotDefinedError"

---------------------------------------------------------------------------
(* A claim about the configuration in memory and on disk, under SpecConfig. *)

\* C32: whenever the configuration lock is free, the structure each
\* configuration object holds in memory is what its settings file loads as:
\* the file as it was loaded or as the last successful write left it, whole,
\* with the sections and fields it had at load.
C32_MemoryMatchesFileWhenLockFree ==
    ~_thread_lock =>
        \A i \in 1..Len(insts) :
            /\ files[insts[i].config_path].kind = "yaml"
            /\ insts[i].conf = load(files[insts[i].config_path])
====
